---- MODULE Spec2Model ----
(***************************************************************************)
(* Comparison-matrix engine of smart-rfp-system: column classification     *)
(* (backend/services/column_classifier.py), the matrix endpoint            *)
(* (backend/routers/proposals.py, get_proposal_matrix) and the spreadsheet *)
(* builder (backend/src/agents/comparison_matrix_builder.py).              *)
(*                                                                         *)
(* Python strings are sequences of one-character strings, so that strip,   *)
(* upper, replace and float parsing are computed and not assumed.  None is *)
(* the one-element tuple <<"None">>, which no character sequence equals.   *)
(* Money is counted in cents.                                              *)
(***************************************************************************)
EXTENDS Integers, Sequences, FiniteSets, TLC

VARIABLES
    rfp_rows,      \* RfpModel.proposal_form_rows of the RFP
    proposals,     \* ProposalModel rows of the RFP, newest first (list_proposals)
    cache,         \* RfpModel.comparison_matrix_cache ({} is NoCache)
    next_id,       \* number of proposals created so far (ids are 1..next_id)
    pc,            \* position of the matrix request in flight
    req,           \* locals of the matrix request in flight
    response,      \* what the last matrix request returned
    pure           \* input and result of a function applied on its own

vars == <<rfp_rows, proposals, cache, next_id, pc, req, response, pure>>

-----------------------------------------------------------------------------
(* Python values *)

None == <<"None">>

LowerLetters == <<"a","b","c","d","e","f","g","h","i","j","k","l","m",
                  "n","o","p","q","r","s","t","u","v","w","x","y","z">>
UpperLetters == <<"A","B","C","D","E","F","G","H","I","J","K","L","M",
                  "N","O","P","Q","R","S","T","U","V","W","X","Y","Z">>
Whitespace == {" ", "\t", "\n"}
Digits == <<"0","1","2","3","4","5","6","7","8","9">>

\* str.upper() / str.lower() on one character
UpperChar(c) ==
    IF \E i \in 1..Len(LowerLetters) : LowerLetters[i] = c
    THEN UpperLetters[CHOOSE i \in 1..Len(LowerLetters) : LowerLetters[i] = c]
    ELSE c

LowerChar(c) ==
    IF \E i \in 1..Len(UpperLetters) : UpperLetters[i] = c
    THEN LowerLetters[CHOOSE i \in 1..Len(UpperLetters) : UpperLetters[i] = c]
    ELSE c

Upper(s) == [i \in 1..Len(s) |-> UpperChar(s[i])]
Lower(s) == [i \in 1..Len(s) |-> LowerChar(s[i])]

\* str.strip(): drop leading and trailing whitespace
Strip(s) ==
    LET keep == {i \in 1..Len(s) : s[i] \notin Whitespace}
    IN  IF keep = {} THEN <<>>
        ELSE LET lo == CHOOSE i \in keep : \A j \in keep : i <= j
                 hi == CHOOSE i \in keep : \A j \in keep : j <= i
             IN  SubSeq(s, lo, hi)

\* str.replace(ch, '')
Remove(s, ch) == SelectSeq(s, LAMBDA c : c # ch)

\* str(v): None prints as the four characters of "None"
Str(v) == IF v = None THEN <<"N","o","n","e">> ELSE v

\* truth value of a cell: None and '' are falsy
Truthy(v) == v # None /\ v # <<>>

\* a in b for strings (substring test)
Contains(s, sub) ==
    \E i \in 0..(Len(s) - Len(sub)) : SubSeq(s, i + 1, i + Len(sub)) = sub

\* membership in a list
InSeq(x, s) == \E i \in 1..Len(s) : s[i] = x

\* sorted(list of ids)
RECURSIVE sorted(_)
sorted(s) ==
    IF s = <<>> THEN <<>>
    ELSE LET m == CHOOSE i \in 1..Len(s) : \A j \in 1..Len(s) :
                      s[i] < s[j] \/ (s[i] = s[j] /\ i <= j)
         IN  <<s[m]>> \o sorted(SubSeq(s, 1, m - 1) \o SubSeq(s, m + 1, Len(s)))

-----------------------------------------------------------------------------
(* column_classifier.py *)

S_TBD == <<"T","B","D">>
S_NA == <<"N","/","A">>
S_DASH == <<"-">>
S_DOLLAR_DASH == <<"$","-">>
S_NOT_QUOTED_UP == <<"N","O","T"," ","Q","U","O","T","E","D">>
S_NOT_QUOTED == <<"N","o","t"," ","Q","u","o","t","e","d">>

normalize_value_no_upper(val) ==
    IF val = None THEN <<>>
    ELSE LET s == Strip(Str(val))
         IN  IF s \in {S_TBD, S_NA, S_DASH, S_DOLLAR_DASH, <<>>, S_NOT_QUOTED_UP}
             THEN <<>> ELSE s

normalize_value(val) ==
    IF val = None THEN <<>>
    ELSE LET s == Upper(Strip(Str(val)))
         IN  IF s \in {S_TBD, S_NA, S_DASH, S_DOLLAR_DASH, <<>>, S_NOT_QUOTED_UP}
             THEN <<>> ELSE s

\* dict.get(key): None when the key is absent
Get(row, col) == IF col \in DOMAIN row THEN row[col] ELSE None

\* field order of DiscoveredFormRow.model_dump(), the shape of every stored row
RowKeys == <<"section", "item_id", "description", "values",
             "quantity", "unit", "unit_cost", "total">>

\* all_columns = [k for k in sample_row.keys() if k not in ('values',)]
all_columns(rows) ==
    SelectSeq(RowKeys, LAMBDA k : k \in DOMAIN rows[1] /\ k # "values")

\* item ids agree as str(...).strip()
SameItem(row, item_id) == Strip(Str(Get(row, "item_id"))) = Strip(Str(item_id))

NoRow == [none |-> TRUE]

\* get_vendor_row: the first row of the proposal with the RFP row's item_id
get_vendor_row(form_data, item_id) ==
    LET hits == {i \in 1..Len(form_data) : SameItem(form_data[i], item_id)}
    IN  IF hits = {} THEN NoRow
        ELSE form_data[CHOOSE i \in hits : \A j \in hits : i <= j]

\* proposals_with_data = [p for p in vendor_proposals if p.get('proposal_form_data')]
with_data(props) == SelectSeq(props, LAMBDA p : p.proposal_form_data # <<>>)

\* The (RFP row, proposal) pairs a column's vote counts: RFP value non-empty,
\* vendor row found by item_id, vendor value non-empty, all after normalization.
Compared(col, rows, pwd) ==
    {ik \in (1..Len(rows)) \X (1..Len(pwd)) :
        LET rfp_value == normalize_value(Get(rows[ik[1]], col))
            vendor_row == get_vendor_row(pwd[ik[2]].proposal_form_data,
                                         Get(rows[ik[1]], "item_id"))
        IN  /\ rfp_value # <<>>
            /\ vendor_row # NoRow
            /\ normalize_value(Get(vendor_row, col)) # <<>>}

total_comparisons(col, rows, pwd) == Cardinality(Compared(col, rows, pwd))

match_count(col, rows, pwd) ==
    Cardinality({ik \in Compared(col, rows, pwd) :
        normalize_value(Get(rows[ik[1]], col)) =
        normalize_value(Get(get_vendor_row(pwd[ik[2]].proposal_form_data,
                                           Get(rows[ik[1]], "item_id")), col))})

\* A threshold is the fraction num/den; match_ratio = matches/total is compared
\* to it by cross-multiplication.
vote_zero_is_vendor(matches, total, num, den) ==
    IF total = 0 THEN "vendor"
    ELSE IF matches * den > num * total THEN "fixed"
    ELSE IF matches * den < (den - num) * total THEN "vendor"
    ELSE "ambiguous"

vote_not_strict(matches, total, num, den) ==
    IF total = 0 THEN "fixed"
    ELSE IF matches * den >= num * total THEN "fixed"
    ELSE IF matches * den < (den - num) * total THEN "vendor"
    ELSE "ambiguous"

vote_oracle_below(matches, total, num, den) ==
    IF total = 0 THEN "fixed"
    ELSE IF matches * den > num * total THEN "fixed"
    ELSE "ambiguous"

\* the classification of one column from its counts (lines 84-96)
vote(matches, total, num, den) ==
    IF total = 0 THEN "fixed"
    ELSE IF matches * den > num * total THEN "fixed"
    ELSE IF matches * den < (den - num) * total THEN "vendor"
    ELSE "ambiguous"

column_class(col, rows, pwd, num, den) ==
    vote(match_count(col, rows, pwd), total_comparisons(col, rows, pwd), num, den)

\* (fixed_columns, vendor_columns, ambiguous_columns)
classify_columns_majority_voting(rows, vendor_proposals, num, den) ==
    IF rows = <<>> THEN [fixed |-> <<>>, vendor |-> <<>>, ambiguous |-> <<>>]
    ELSE LET cols == all_columns(rows)
             pwd == with_data(vendor_proposals)
         IN  IF pwd = <<>>
             THEN [fixed |-> cols, vendor |-> <<>>, ambiguous |-> <<>>]
             ELSE [fixed |-> SelectSeq(cols, LAMBDA c :
                                 column_class(c, rows, pwd, num, den) = "fixed"),
                   vendor |-> SelectSeq(cols, LAMBDA c :
                                 column_class(c, rows, pwd, num, den) = "vendor"),
                   ambiguous |-> SelectSeq(cols, LAMBDA c :
                                 column_class(c, rows, pwd, num, den) = "ambiguous")]

NoCache == [empty |-> TRUE]

get_cached_classification_unsorted(rfp_cache, current_proposal_ids) ==
    IF rfp_cache = NoCache THEN NoCache
    ELSE IF rfp_cache.proposal_ids # current_proposal_ids THEN NoCache
    ELSE [fixed |-> rfp_cache.fixed_columns, vendor |-> rfp_cache.vendor_columns]

\* get_cached_classification: None (NoCache) or (fixed_columns, vendor_columns)
get_cached_classification(rfp_cache, current_proposal_ids) ==
    IF rfp_cache = NoCache THEN NoCache
    ELSE IF sorted(rfp_cache.proposal_ids) # sorted(current_proposal_ids) THEN NoCache
    ELSE [fixed |-> rfp_cache.fixed_columns, vendor |-> rfp_cache.vendor_columns]

build_cache(fixed_columns, vendor_columns, proposal_ids) ==
    [proposal_ids |-> sorted(proposal_ids),
     fixed_columns |-> fixed_columns,
     vendor_columns |-> vendor_columns]

-----------------------------------------------------------------------------
(* routers/proposals.py: get_proposal_matrix, lines 506-583 *)

S_NOT_QUOTED_CELL == S_NOT_QUOTED

NoNumber == <<>>

DigitVal(c) == (CHOOSE i \in 1..Len(Digits) : Digits[i] = c) - 1
IsDigits(s) == \A i \in 1..Len(s) : InSeq(s[i], Digits)

RECURSIVE ToInt(_)
ToInt(ds) ==
    IF ds = <<>> THEN 0
    ELSE 10 * ToInt(SubSeq(ds, 1, Len(ds) - 1)) + DigitVal(ds[Len(ds)])

\* float(cleaned) of a decimal literal [sign] digits [. digits], in cents
\* (<<cents>>), or ValueError (NoNumber).  The cells of this model carry at
\* most two fraction digits and no exponent, inf, nan or underscore forms.
ParseFloat(s) ==
    LET signed == s # <<>> /\ s[1] \in {"-", "+"}
        body == IF signed THEN Tail(s) ELSE s
        dots == {i \in 1..Len(body) : body[i] = "."}
        ip == IF dots = {} THEN body
              ELSE SubSeq(body, 1, (CHOOSE i \in dots : TRUE) - 1)
        fp == IF dots = {} THEN <<>>
              ELSE SubSeq(body, (CHOOSE i \in dots : TRUE) + 1, Len(body))
        fp2 == SubSeq(fp \o <<"0", "0">>, 1, 2)
        mag == 100 * ToInt(ip) + ToInt(fp2)
    IN  IF /\ Cardinality(dots) <= 1
           /\ IsDigits(ip) /\ IsDigits(fp)
           /\ Len(ip) + Len(fp) > 0
        THEN <<IF signed /\ s[1] = "-" THEN 0 - mag ELSE mag>>
        ELSE NoNumber

parse_number_keeps_commas(value) ==
    IF ~Truthy(value) \/ Upper(Str(value)) \in
           {S_TBD, S_NA, S_DASH, S_DOLLAR_DASH, <<>>}
    THEN NoNumber
    ELSE ParseFloat(Strip(Remove(Str(value), "$")))

\* parse_number: None for an empty or sentinel or unparsable value
parse_number(value) ==
    IF ~Truthy(value) \/ Upper(Str(value)) \in
           {S_TBD, S_NA, S_DASH, S_DOLLAR_DASH, <<>>}
    THEN NoNumber
    ELSE ParseFloat(Strip(Remove(Remove(Str(value), "$"), ",")))

RECURSIVE NatDigits(_)
NatDigits(n) ==
    IF n < 10 THEN <<Digits[n + 1]>>
    ELSE NatDigits(n \div 10) \o <<Digits[(n % 10) + 1]>>

RECURSIVE Grouped(_)
Grouped(ds) ==
    IF Len(ds) <= 3 THEN ds
    ELSE Grouped(SubSeq(ds, 1, Len(ds) - 3)) \o <<",">>
         \o SubSeq(ds, Len(ds) - 2, Len(ds))

\* f"${x:,.2f}"
FormatMoney(cents) ==
    LET mag == IF cents < 0 THEN 0 - cents ELSE cents
        frac == mag % 100
    IN  <<"$">> \o (IF cents < 0 THEN <<"-">> ELSE <<>>)
        \o Grouped(NatDigits(mag \div 100)) \o <<".">>
        \o <<Digits[(frac \div 10) + 1], Digits[(frac % 10) + 1]>>

\* the characters of a column name
ColumnChars ==
    [section |-> <<"s","e","c","t","i","o","n">>,
     item_id |-> <<"i","t","e","m","_","i","d">>,
     description |-> <<"d","e","s","c","r","i","p","t","i","o","n">>,
     values |-> <<"v","a","l","u","e","s">>,
     quantity |-> <<"q","u","a","n","t","i","t","y">>,
     unit |-> <<"u","n","i","t">>,
     unit_cost |-> <<"u","n","i","t","_","c","o","s","t">>,
     total |-> <<"t","o","t","a","l">>]

NoColumn == ""

\* total_column = next((c for c in vendor_columns if 'total' in c.lower()), None)
total_column_of(vendor_columns) ==
    LET hits == {i \in 1..Len(vendor_columns) :
                    Contains(Lower(ColumnChars[vendor_columns[i]]),
                             ColumnChars["total"])}
    IN  IF hits = {} THEN NoColumn
        ELSE vendor_columns[CHOOSE i \in hits : \A j \in hits : i <= j]

Or(a, b) == IF Truthy(a) THEN a ELSE b

SeqToSet(s) == {s[i] : i \in 1..Len(s)}

vendor_cell_no_sentinel(vendor_row, col) ==
    IF vendor_row # NoRow THEN Or(Get(vendor_row, col), S_DASH) ELSE S_DASH

\* values[col]: the vendor row's value or "-", "Not Quoted" without a row
vendor_cell(vendor_row, col) ==
    IF vendor_row # NoRow THEN Or(Get(vendor_row, col), S_DASH)
    ELSE S_NOT_QUOTED_CELL

total_of_row_or_unit_cost(form_data, rfp_row, total_column) ==
    LET vendor_row == get_vendor_row(form_data, Get(rfp_row, "item_id"))
    IN  IF total_column # NoColumn /\ vendor_row # NoRow
        THEN LET n == parse_number(Or(Get(vendor_row, total_column),
                                      Get(vendor_row, "unit_cost")))
             IN  IF n = NoNumber THEN 0 ELSE n[1]
        ELSE 0

\* what one RFP row adds to a vendor's grand total (lines 549-552)
total_of_row(form_data, rfp_row, total_column) ==
    LET vendor_row == get_vendor_row(form_data, Get(rfp_row, "item_id"))
    IN  IF total_column # NoColumn /\ vendor_row # NoRow
        THEN LET n == parse_number(Or(Get(vendor_row, total_column),
                                      Get(vendor_row, "total")))
             IN  IF n = NoNumber THEN 0 ELSE n[1]
        ELSE 0

RECURSIVE grand_total(_, _, _)
grand_total(form_data, rows, total_column) ==
    IF rows = <<>> THEN 0
    ELSE grand_total(form_data, SubSeq(rows, 1, Len(rows) - 1), total_column)
         + total_of_row(form_data, rows[Len(rows)], total_column)

FormData(props, id) ==
    (CHOOSE i \in 1..Len(props) : props[i].id = id) 

ProposalIds(props) == {props[i].id : i \in 1..Len(props)}

DataOf(props, id) == props[FormData(props, id)].proposal_form_data

matrix_rows_no_total_row(rows, props, fixed_columns, vendor_columns) ==
    [i \in 1..Len(rows) |->
        [fixed_values |-> [c \in SeqToSet(fixed_columns) |-> Get(rows[i], c)],
         vendor_values |-> [id \in ProposalIds(props) |->
            [c \in SeqToSet(vendor_columns) |->
                vendor_cell(get_vendor_row(DataOf(props, id),
                                           Get(rows[i], "item_id")), c)]]]]

\* matrix_rows: one row per RFP row, then the grand-total row (lines 527-575)
matrix_rows(rows, props, fixed_columns, vendor_columns) ==
    LET total_column == total_column_of(vendor_columns)
    IN  [i \in 1..Len(rows) |->
            [fixed_values |-> [c \in SeqToSet(fixed_columns) |-> Get(rows[i], c)],
             vendor_values |-> [id \in ProposalIds(props) |->
                [c \in SeqToSet(vendor_columns) |->
                    vendor_cell(get_vendor_row(DataOf(props, id),
                                               Get(rows[i], "item_id")), c)]]]]
        \o <<[is_grand_total |-> TRUE,
              fixed_values |-> [c \in SeqToSet(fixed_columns) |->
                  IF c \in {"description", "item_id"}
                  THEN <<"G","R","A","N","D"," ","T","O","T","A","L">>
                  ELSE <<>>],
              vendor_values |-> [id \in ProposalIds(props) |->
                  [c \in (IF total_column = NoColumn THEN {} ELSE {total_column})
                     |-> FormatMoney(grand_total(DataOf(props, id), rows,
                                                 total_column))]]]>>

-----------------------------------------------------------------------------
(* comparison_matrix_builder.py: _find_best_match_row, lines 351-385 *)

\* Threshold of line 382, 0.6
FuzzyNum == 3
FuzzyDen == 5

\* the column names of _elect_structure_from_proposals and of the lookups
S_ITEM == <<"I","t","e","m">>
S_DESCRIPTION == <<"D","e","s","c","r","i","p","t","i","o","n">>
S_QUANTITY == <<"Q","u","a","n","t","i","t","y">>
S_UNIT == <<"U","n","i","t">>
S_UNIT_COST == <<"U","n","i","t"," ","C","o","s","t">>
S_TOTAL == <<"T","o","t","a","l">>

_get_value_sensitive(values_dict, key) ==
    LET direct == {i \in 1..Len(values_dict) : values_dict[i][1] = key}
    IN  IF values_dict = None \/ values_dict = <<>> \/ direct = {} THEN <<>>
        ELSE Str(values_dict[CHOOSE i \in direct : TRUE][2])

\* lines 165-177; a dictionary is the sequence of its <<key, value>> pairs
_get_value_insensitive(values_dict, key) ==
    LET direct == {i \in 1..Len(values_dict) : values_dict[i][1] = key}
        insens == {i \in 1..Len(values_dict) :
                      Lower(values_dict[i][1]) = Lower(key)}
    IN  IF values_dict = None \/ values_dict = <<>> THEN <<>>
        ELSE IF direct # {} THEN Str(values_dict[CHOOSE i \in direct : TRUE][2])
        ELSE IF insens # {}
             THEN Str(values_dict[CHOOSE i \in insens :
                                     \A j \in insens : i <= j][2])
        ELSE <<>>

\* SequenceMatcher.find_longest_match: the longest common block, the earliest
\* in a and then in b among the longest; <<0, 0, 0>> without a common element
find_longest_match(a, b) ==
    LET blocks == {t \in (1..Len(a)) \X (1..Len(b)) \X (1..Len(a)) :
                      /\ t[1] + t[3] - 1 <= Len(a)
                      /\ t[2] + t[3] - 1 <= Len(b)
                      /\ SubSeq(a, t[1], t[1] + t[3] - 1)
                             = SubSeq(b, t[2], t[2] + t[3] - 1)}
    IN  IF blocks = {} THEN <<0, 0, 0>>
        ELSE CHOOSE t \in blocks : \A u \in blocks :
                \/ t[3] > u[3]
                \/ t[3] = u[3] /\ t[1] < u[1]
                \/ t[3] = u[3] /\ t[1] = u[1] /\ t[2] <= u[2]

\* the summed sizes of SequenceMatcher.get_matching_blocks
RECURSIVE matching_size(_, _)
matching_size(a, b) ==
    LET m == find_longest_match(a, b)
    IN  IF m[3] = 0 THEN 0
        ELSE m[3]
             + matching_size(SubSeq(a, 1, m[1] - 1), SubSeq(b, 1, m[2] - 1))
             + matching_size(SubSeq(a, m[1] + m[3], Len(a)),
                             SubSeq(b, m[2] + m[3], Len(b)))

\* SequenceMatcher(None, a, b).ratio() as the fraction <<2 * M, T>>
ratio(a, b) == <<2 * matching_size(a, b), Len(a) + Len(b)>>

\* row.description or _get_value_insensitive(row.values, "Description") or ""
desc_of(row) ==
    Or(Or(Get(row, "description"),
          _get_value_insensitive(Get(row, "values"), S_DESCRIPTION)),
       <<>>)

_find_best_match_row_at_threshold(rfp_row, candidate_rows) ==
    LET target_desc == desc_of(rfp_row)
        score(i) == ratio(Lower(target_desc), Lower(desc_of(candidate_rows[i])))
        scored == {i \in 1..Len(candidate_rows) :
                      /\ Truthy(desc_of(candidate_rows[i]))
                      /\ score(i)[1] > 0}
        \* score > best_score keeps the first row of the highest score
        best == CHOOSE i \in scored : \A j \in scored :
                    \/ score(i)[1] * score(j)[2] > score(j)[1] * score(i)[2]
                    \/ /\ score(i)[1] * score(j)[2] = score(j)[1] * score(i)[2]
                       /\ i <= j
    IN  IF candidate_rows = <<>> \/ ~Truthy(target_desc) \/ scored = {}
        THEN NoRow
        ELSE IF score(best)[1] * FuzzyDen >= FuzzyNum * score(best)[2]
             THEN candidate_rows[best]
             ELSE NoRow

_find_best_match_row(rfp_row, candidate_rows) ==
    LET target_desc == desc_of(rfp_row)
        score(i) == ratio(Lower(target_desc), Lower(desc_of(candidate_rows[i])))
        scored == {i \in 1..Len(candidate_rows) :
                      /\ Truthy(desc_of(candidate_rows[i]))
                      /\ score(i)[1] > 0}
        \* score > best_score keeps the first row of the highest score
        best == CHOOSE i \in scored : \A j \in scored :
                    \/ score(i)[1] * score(j)[2] > score(j)[1] * score(i)[2]
                    \/ /\ score(i)[1] * score(j)[2] = score(j)[1] * score(i)[2]
                       /\ i <= j
    IN  IF candidate_rows = <<>> \/ ~Truthy(target_desc) \/ scored = {}
        THEN NoRow
        ELSE IF score(best)[1] * FuzzyDen > FuzzyNum * score(best)[2]
             THEN candidate_rows[best]
             ELSE NoRow

-----------------------------------------------------------------------------
(* Bounds and the documents the model draws from *)

MaxRfpRows == 2
MaxProposals == 2

\* threshold=0.5 of both classification calls of get_proposal_matrix
ThresholdNum == 1
ThresholdDen == 2

Row(section, item_id, description, quantity, unit, unit_cost, total) ==
    [section |-> section, item_id |-> item_id, description |-> description,
     values |-> None, quantity |-> quantity, unit |-> unit,
     unit_cost |-> unit_cost, total |-> total]

C_I == <<"I">>
C_SF == <<"S","F">>
C_LF == <<"L","F">>
C_WALL == <<"W","a","l","l">>
C_WALL_LC == <<"w","a","l","l">>
C_ROOF == <<"R","o","o","f">>
C_9 == <<"$","9">>
C_1234_56 == <<"$","1",",","2","3","4",".","5","6">>
C_500 == <<"$","5","0","0",".","0","0">>
C_4_10 == <<"$","4",".","1","0">>

\* The k-th line item of the RFP form: item ids restart after two items, as
\* they do per section of a bid form; odd items carry an RFP estimate in total.
TemplateRow(k) ==
    Row(C_I, <<Digits[((k - 1) % 2) + 2]>>,
        IF k % 2 = 1 THEN C_WALL ELSE C_ROOF,
        S_TBD, C_SF, None,
        IF k % 2 = 1 THEN C_9 ELSE None)

Template(n) == [k \in 1..n |-> TemplateRow(k)]

V_A1 == Row(C_I, <<"1">>, C_WALL_LC, S_TBD, C_SF, C_4_10, C_1234_56)
V_A2 == Row(C_I, <<"2">>, C_ROOF, S_TBD, None, None, S_TBD)
V_B1 == Row(C_I, <<" ","1">>, C_ROOF, None, C_LF, C_4_10, C_500)
V_C7 == Row(C_I, <<"7">>, C_WALL, S_TBD, C_SF, C_4_10, C_9)

\* the filled forms a vendor upload can store
FormDataPool == {<<V_A1, V_A2>>, <<V_B1>>, <<V_C7, V_A1>>}

NoReq == [none |-> TRUE]
NoResponse == [status |-> "none"]

-----------------------------------------------------------------------------
(* Uploads (routers/proposals.py, upload_proposal) *)

\* proposal_service.create_proposal: the proposal exists, without form data
CreateProposal ==
    /\ next_id < MaxProposals
    /\ next_id' = next_id + 1
    /\ proposals' = <<[id |-> next_id + 1, proposal_form_data |-> <<>>]>>
                    \o proposals
    /\ UNCHANGED <<rfp_rows, cache, pc, req, response, pure>>

\* the final update of upload_proposal stores a non-empty extracted form
StoreFormData ==
    \E i \in 1..Len(proposals), data \in FormDataPool :
        /\ proposals[i].proposal_form_data = <<>>
        /\ proposals' = [proposals EXCEPT ![i].proposal_form_data = data]
        /\ UNCHANGED <<rfp_rows, cache, next_id, pc, req, response, pure>>

-----------------------------------------------------------------------------
(* The matrix request (routers/proposals.py, get_proposal_matrix) *)

\* Lines 395-450.  elected_structure.rows raises AttributeError, since
\* ProposalFormStructure declares no rows field, and the except clause
\* swallows it: rfp_rows stay what the RFP stores.
rows_after_election(rows, props) == rows

ids_with_data(props) ==
    [i \in 1..Len(with_data(props)) |-> with_data(props)[i].id]

ok_response(rows, props, fixed_columns, vendor_columns, reused) ==
    [status |-> "ok", fixed_columns |-> fixed_columns,
     vendor_columns |-> vendor_columns, reused |-> reused,
     rows |-> matrix_rows(rows, props, fixed_columns, vendor_columns)]

\* From the first line to the response, or to the first oracle call.
MatrixRequest ==
    /\ pc = "idle"
    /\ LET rows == rows_after_election(rfp_rows, proposals)
           ids == ids_with_data(proposals)
           cached == get_cached_classification(cache, ids)
           m == classify_columns_majority_voting(rows, proposals,
                                                 ThresholdNum, ThresholdDen)
           r == [rows |-> rows, props |-> proposals, ids |-> ids,
                 cache0 |-> cache, classified |-> FALSE,
                 fixed |-> <<>>, vendor |-> <<>>, pending |-> <<>>]
       IN  IF rows = <<>>
           THEN /\ response' = [status |-> "empty", fixed_columns |-> <<>>,
                                vendor_columns |-> <<>>, reused |-> FALSE,
                                rows |-> <<>>]
                /\ req' = r
                /\ pc' = "done"
                /\ UNCHANGED cache
           ELSE IF cached # NoCache
           THEN /\ response' = ok_response(rows, proposals, cached.fixed,
                                           cached.vendor, TRUE)
                /\ req' = r
                /\ pc' = "done"
                /\ UNCHANGED cache
           ELSE IF m.ambiguous = <<>>
           THEN /\ cache' = build_cache(m.fixed, m.vendor, ids)
                /\ response' = ok_response(rows, proposals, m.fixed, m.vendor,
                                           FALSE)
                /\ req' = [r EXCEPT !.classified = TRUE, !.fixed = m.fixed,
                                    !.vendor = m.vendor]
                /\ pc' = "done"
           ELSE /\ req' = [r EXCEPT !.classified = TRUE, !.fixed = m.fixed,
                                    !.vendor = m.vendor,
                                    !.pending = m.ambiguous]
                /\ pc' = "ai"
                /\ UNCHANGED <<cache, response>>
    /\ UNCHANGED <<rfp_rows, proposals, next_id, pure>>

Resolve_saving_each_column(classification) ==
    LET col == Head(req.pending)
        fixed == IF classification = "fixed" THEN Append(req.fixed, col)
                 ELSE req.fixed
        vendor == IF classification = "fixed" THEN req.vendor
                  ELSE Append(req.vendor, col)
    IN  /\ req' = [req EXCEPT !.fixed = fixed, !.vendor = vendor,
                              !.pending = Tail(req.pending)]
        /\ cache' = build_cache(fixed, vendor, req.ids)
        /\ IF Tail(req.pending) = <<>>
           THEN /\ response' = ok_response(req.rows, req.props, fixed, vendor,
                                           FALSE)
                /\ pc' = "done"
           ELSE UNCHANGED <<response, pc>>
        /\ UNCHANGED <<rfp_rows, proposals, next_id, pure>>

\* classify_with_ai_fallback after ai_semantic_classify returned for the first
\* pending column; after the last one the cache is saved and the matrix built.
Resolve(classification) ==
    LET col == Head(req.pending)
        fixed == IF classification = "fixed" THEN Append(req.fixed, col)
                 ELSE req.fixed
        vendor == IF classification = "fixed" THEN req.vendor
                  ELSE Append(req.vendor, col)
    IN  /\ req' = [req EXCEPT !.fixed = fixed, !.vendor = vendor,
                              !.pending = Tail(req.pending)]
        /\ IF Tail(req.pending) = <<>>
           THEN /\ cache' = build_cache(fixed, vendor, req.ids)
                /\ response' = ok_response(req.rows, req.props, fixed, vendor,
                                           FALSE)
                /\ pc' = "done"
           ELSE UNCHANGED <<cache, response, pc>>
        /\ UNCHANGED <<rfp_rows, proposals, next_id, pure>>

\* the oracle answers: 'fixed' if 'FIXED' in result else 'vendor'
AiAnswer ==
    /\ pc = "ai"
    /\ \E says_fixed \in BOOLEAN :
           Resolve(IF says_fixed THEN "fixed" ELSE "vendor")

\* llm.ainvoke raises: except Exception returns 'vendor'
AiFailure ==
    /\ pc = "ai"
    /\ Resolve("vendor")

\* get_chat_llm raises outside the try of ai_semantic_classify: the request fails
LlmUnavailable ==
    /\ pc = "ai"
    /\ pc' = "raised"
    /\ response' = [status |-> "raised"]
    /\ UNCHANGED <<rfp_rows, proposals, cache, next_id, req, pure>>

\* the request is cancelled while it awaits the oracle
Cancel ==
    /\ pc = "ai"
    /\ pc' = "cancelled"
    /\ response' = [status |-> "cancelled"]
    /\ UNCHANGED <<rfp_rows, proposals, cache, next_id, req, pure>>

\* the caller has its answer; the next request may start
Return ==
    /\ pc \in {"done", "raised", "cancelled"}
    /\ pc' = "idle"
    /\ req' = NoReq
    /\ response' = NoResponse
    /\ UNCHANGED <<rfp_rows, proposals, cache, next_id, pure>>

Init ==
    /\ rfp_rows \in {Template(n) : n \in 0..MaxRfpRows}
    /\ proposals = <<>>
    /\ cache = NoCache
    /\ next_id = 0
    /\ pc = "idle"
    /\ req = NoReq
    /\ response = NoResponse
    /\ pure = <<>>

Next ==
    \/ CreateProposal
    \/ StoreFormData
    \/ MatrixRequest
    \/ AiAnswer
    \/ AiFailure
    \/ LlmUnavailable
    \/ Cancel
    \/ Return

Spec == Init /\ [][Next]_vars

-----------------------------------------------------------------------------
(* Properties of the matrix request *)

Answered == pc = "done" /\ response.status \in {"ok", "empty"}

IsGrandTotalRow(r) == "is_grand_total" \in DOMAIN r

\* C1 as stated: every matrix response has len(template_rows) + 1 rows.
C1_AlwaysOneMoreRowThanTemplate ==
    Answered => Len(response.rows) = Len(req.rows) + 1

\* C1 amended: with at least one template row the response has one row per
\* template row, in template order, each with a cell map for every proposal,
\* followed by one grand-total row; without template rows it has no rows.
C1_RowPerTemplateRowPlusTotal ==
    Answered =>
        IF req.rows = <<>> THEN response.rows = <<>>
        ELSE /\ Len(response.rows) = Len(req.rows) + 1
             /\ \A i \in 1..Len(req.rows) :
                    /\ ~IsGrandTotalRow(response.rows[i])
                    /\ \A c \in DOMAIN response.rows[i].fixed_values :
                           response.rows[i].fixed_values[c] = Get(req.rows[i], c)
                    /\ DOMAIN response.rows[i].vendor_values
                           = ProposalIds(req.props)
             /\ IsGrandTotalRow(response.rows[Len(response.rows)])

\* C1 witness: two template rows, two vendors, one of which has a row for a
\* template row and one of which has none.
C1_Witness ==
    /\ Answered /\ response.status = "ok"
    /\ Len(req.rows) = 2 /\ Len(req.props) = 2
    /\ \E i \in 1..2, a, b \in ProposalIds(req.props) :
           /\ get_vendor_row(DataOf(req.props, a),
                             Get(req.rows[i], "item_id")) = NoRow
           /\ get_vendor_row(DataOf(req.props, b),
                             Get(req.rows[i], "item_id")) # NoRow

\* C6: a matrix request that reaches the cache check reuses the stored
\* classification exactly when one is stored and its proposal ids are, as a
\* set, the ids of the proposals that now have form data; otherwise the
\* classification is computed again.
C6_CacheReusedIffSameIdSet ==
    (pc = "done" /\ response.status = "ok") =>
        /\ response.reused <=>
               (/\ req.cache0 # NoCache
                /\ SeqToSet(req.cache0.proposal_ids) = SeqToSet(req.ids))
        /\ response.reused =>
               /\ response.fixed_columns = req.cache0.fixed_columns
               /\ response.vendor_columns = req.cache0.vendor_columns
               /\ ~req.classified
        /\ ~response.reused => req.classified

\* C6 witness: the cache is reused although the ids arrive in another order
\* than the fingerprint stores them.
C6_Witness ==
    /\ pc = "done" /\ response.status = "ok" /\ response.reused
    /\ Len(req.ids) = 2
    /\ req.ids # req.cache0.proposal_ids

\* C7: the stored cache changes only in the step that ends a complete
\* classification run (every column classified, none pending), and a request
\* that was cancelled or failed leaves the cache it found.
C7_CacheWrittenOnlyAfterCompleteRun ==
    /\ [][cache' # cache =>
            /\ pc' = "done" /\ response'.status = "ok" /\ ~response'.reused
            /\ req'.classified /\ req'.pending = <<>>
            /\ SeqToSet(req'.fixed) \cup SeqToSet(req'.vendor)
                   = SeqToSet(all_columns(req'.rows))
            /\ cache' = build_cache(req'.fixed, req'.vendor, req'.ids)]_vars
    /\ [](pc \in {"raised", "cancelled"} => cache = req.cache0)

\* C7 witness: a run is cancelled while an earlier cache is stored.
C7_Witness ==
    /\ pc = "cancelled"
    /\ req.cache0 # NoCache
    /\ cache = req.cache0

\* C8: after a classification run, every column without a single valid
\* comparison is among the fixed columns.
C8_ZeroComparisonsIsFixed ==
    (req # NoReq /\ req.classified) =>
        \A c \in SeqToSet(all_columns(req.rows)) :
            total_comparisons(c, req.rows, with_data(req.props)) = 0
                => InSeq(c, req.fixed)

\* C8 witness: vendors have data, one column has no valid comparison and
\* another has some and is not fixed.
C8_Witness ==
    /\ req # NoReq /\ req.classified
    /\ with_data(req.props) # <<>>
    /\ \E c, d \in SeqToSet(all_columns(req.rows)) :
           /\ total_comparisons(c, req.rows, with_data(req.props)) = 0
           /\ InSeq(c, req.fixed)
           /\ total_comparisons(d, req.rows, with_data(req.props)) > 0
           /\ ~InSeq(d, req.fixed)

\* the cells the matrix shows for a vendor row (or for none)
CellsOf(vendor_row) ==
    [c \in SeqToSet(response.vendor_columns) |-> vendor_cell(vendor_row, c)]

\* the vendor rows the stated priority order allows for template row i
C2_Allowed(form_data, i) ==
    LET rfp_row == req.rows[i]
        exact == {k \in 1..Len(form_data) :
                     SameItem(form_data[k], Get(rfp_row, "item_id"))}
        fuzzy == _find_best_match_row(rfp_row, form_data)
    IN  IF exact # {} THEN {form_data[k] : k \in exact}
        ELSE IF fuzzy # NoRow THEN {fuzzy}
        ELSE IF i <= Len(form_data) THEN {form_data[i]}
        ELSE {NoRow}

\* C2 as stated: the cells of every template row and vendor come from the row
\* chosen by identical item_id, else by description similarity above 0.6,
\* else by the same ordinal index, else from no row.
C2_RowChosenInPriorityOrder ==
    (Answered /\ response.status = "ok") =>
        \A i \in 1..Len(req.rows) : \A id \in ProposalIds(req.props) :
            \E r \in C2_Allowed(DataOf(req.props, id), i) :
                response.rows[i].vendor_values[id] = CellsOf(r)

C4_VendorThenTemplateThenDash ==
    (Answered /\ response.status = "ok") =>
        \A i \in 1..Len(req.rows) : \A id \in ProposalIds(req.props) :
            LET vendor_row == get_vendor_row(DataOf(req.props, id),
                                             Get(req.rows[i], "item_id"))
            IN  vendor_row # NoRow =>
                    \A c \in SeqToSet(response.vendor_columns) :
                        response.rows[i].vendor_values[id][c]
                            = IF Truthy(Get(vendor_row, c))
                              THEN Get(vendor_row, c)
                              ELSE IF Truthy(Get(req.rows[i], c))
                                   THEN Get(req.rows[i], c)
                                   ELSE <<"-">>

-----------------------------------------------------------------------------
(* The vote of one column, applied to counts (column_classifier.py 83-96) *)

MaxComparisons == 13

Idle ==
    /\ rfp_rows = <<>>
    /\ proposals = <<>>
    /\ cache = NoCache
    /\ next_id = 0
    /\ pc = "idle"
    /\ req = NoReq
    /\ response = NoResponse

InitVote ==
    /\ Idle
    /\ \E total \in 0..MaxComparisons, matches \in 0..MaxComparisons :
           /\ matches <= total
           /\ pure = [fn |-> "vote", matches |-> matches, total |-> total,
                      result |-> "none"]

\* classify_columns_majority_voting reaches line 83 with these counts and the
\* threshold get_proposal_matrix passes
ApplyVote ==
    /\ pure.result = "none"
    /\ pure' = [pure EXCEPT !.result =
                   vote(pure.matches, pure.total, ThresholdNum, ThresholdDen)]
    /\ UNCHANGED <<rfp_rows, proposals, cache, next_id, pc, req, response>>

NextVote == ApplyVote

SpecVote == InitVote /\ [][NextVote]_vars

\* C9: with comparisons, a column is FIXED iff matches/total > threshold,
\* VENDOR iff matches/total < 1 - threshold and AMBIGUOUS otherwise, for the
\* threshold 0.5 that the program passes: a ratio of exactly 0.5 is not
\* FIXED, and 7 matches of 13 comparisons are FIXED.
C9_RatioAgainstThreshold ==
    (pure.result # "none" /\ pure.total > 0) =>
        /\ pure.result = "fixed" <=>
               pure.matches * ThresholdDen > ThresholdNum * pure.total
        /\ pure.result = "vendor" <=>
               pure.matches * ThresholdDen
                   < (ThresholdDen - ThresholdNum) * pure.total
        /\ pure.result = "ambiguous" <=>
               /\ ~(pure.matches * ThresholdDen > ThresholdNum * pure.total)
               /\ ~(pure.matches * ThresholdDen
                        < (ThresholdDen - ThresholdNum) * pure.total)
        /\ 2 * pure.matches = pure.total => pure.result = "ambiguous"
        /\ (pure.matches = 7 /\ pure.total = 13) => pure.result = "fixed"

\* C9 witness: 7 matches of 13 comparisons have been classified FIXED.
C9_Witness ==
    pure.matches = 7 /\ pure.total = 13 /\ pure.result = "fixed"

-----------------------------------------------------------------------------
(* One template value against one vendor value (column_classifier.py 65-81) *)

C_TBD_LC == <<"t","b","d">>
C_TBD_PAD == <<" ","T","b","d"," ">>
C_NA_LC == <<"n","/","a">>
C_NOT_QUOTED_LC == <<"n","o","t"," ","q","u","o","t","e","d">>
C_BLANK == <<" ">>

\* the values the claim names as empty
NamedEmpty ==
    {None, <<>>, S_TBD, C_TBD_LC, S_NA, C_NA_LC, S_DASH, S_DOLLAR_DASH,
     S_NOT_QUOTED_UP, S_NOT_QUOTED, C_NOT_QUOTED_LC}

CellPool == NamedEmpty \cup {C_TBD_PAD, C_BLANK, C_WALL, C_WALL_LC, C_ROOF, C_9}

InitPair ==
    /\ Idle
    /\ \E t \in CellPool, v \in CellPool, item \in {<<"1">>, <<"2">>} :
           pure = [fn |-> "pair", rfp_value |-> t, vendor_value |-> v,
                   vendor_item |-> item, result |-> "none",
                   rfp_norm |-> <<>>, vendor_norm |-> <<>>,
                   total |-> 0, matches |-> 0]

\* The vote on the description column of one RFP row (item 1) and one
\* proposal with one row.
ApplyPair ==
    /\ pure.result = "none"
    /\ LET rows == <<Row(C_I, <<"1">>, pure.rfp_value, None, None, None, None)>>
           pwd == <<[id |-> 1, proposal_form_data |->
                       <<Row(C_I, pure.vendor_item, pure.vendor_value,
                             None, None, None, None)>>]>>
       IN  pure' = [pure EXCEPT
                !.result = "counted",
                !.rfp_norm = normalize_value(pure.rfp_value),
                !.vendor_norm = normalize_value(pure.vendor_value),
                !.total = total_comparisons("description", rows, pwd),
                !.matches = match_count("description", rows, pwd)]
    /\ UNCHANGED <<rfp_rows, proposals, cache, next_id, pc, req, response>>

NextPair == ApplyPair

SpecPair == InitPair /\ [][NextPair]_vars

\* C10: None, '' and TBD, N/A, -, $-, NOT QUOTED in any letter case normalize
\* to empty; a pair of values is counted as a comparison only if both are
\* non-empty after normalization; TBD against TBD counts no comparison and no
\* match.
C10_EmptyValuesAreNotCompared ==
    pure.result = "counted" =>
        /\ pure.rfp_value \in NamedEmpty => pure.rfp_norm = <<>>
        /\ pure.vendor_value \in NamedEmpty => pure.vendor_norm = <<>>
        /\ pure.total > 0 => (pure.rfp_norm # <<>> /\ pure.vendor_norm # <<>>)
        /\ (pure.rfp_value \in NamedEmpty \/ pure.vendor_value \in NamedEmpty)
               => (pure.total = 0 /\ pure.matches = 0)
        /\ pure.matches <= pure.total

\* C10 witness: template TBD met vendor TBD on the same item and nothing was
\* counted.
C10_Witness ==
    /\ pure.result = "counted"
    /\ pure.rfp_value = S_TBD /\ pure.vendor_value = S_TBD
    /\ pure.vendor_item = <<"1">>
    /\ pure.total = 0 /\ pure.matches = 0

-----------------------------------------------------------------------------
(* The grand total of one vendor (routers/proposals.py 524-575) *)

MaxTotals == 3

C_9_PAD == <<" ","$","9"," ">>

\* what a vendor writes into the total column of a line
TotalPool ==
    {C_1234_56, C_500, C_9_PAD, S_TBD, C_TBD_LC, S_NA, S_DASH, S_DOLLAR_DASH,
     None}

InitTotals ==
    /\ Idle
    /\ \E n \in 1..MaxTotals : \E totals \in [1..n -> TotalPool] :
           pure = [fn |-> "totals", totals |-> totals, result |-> "none",
                   cents |-> 0, cell |-> <<>>, shown |-> <<>>,
                   grand |-> <<>>]

\* Lines 524-575 for a form of Len(pure.totals) items, each quoted by
\* vendor 1 and all but the last by vendor 2, with unit_cost and total as
\* the vendor columns.
ApplyTotals ==
    /\ pure.result = "none"
    /\ LET n == Len(pure.totals)
           rows == [k \in 1..n |->
                       Row(C_I, <<Digits[k + 1]>>, C_WALL, S_TBD, C_SF,
                           None, None)]
           form == [k \in 1..n |->
                       Row(C_I, <<Digits[k + 1]>>, C_WALL, S_TBD, C_SF,
                           C_4_10, pure.totals[k])]
           props == <<[id |-> 1, proposal_form_data |-> form],
                      [id |-> 2,
                       proposal_form_data |-> SubSeq(form, 1, n - 1)]>>
           vendor_columns == <<"unit_cost", "total">>
           out == matrix_rows(rows, props,
                      <<"section", "item_id", "description", "quantity",
                        "unit">>, vendor_columns)
       IN  pure' = [pure EXCEPT
                !.result = "done",
                !.cents = grand_total(form, rows,
                                      total_column_of(vendor_columns)),
                !.cell = out[n + 1].vendor_values[1]["total"],
                !.shown = [id \in 1..2 |->
                    [k \in 1..n |-> out[k].vendor_values[id]["total"]]],
                !.grand = [id \in 1..2 |->
                    out[n + 1].vendor_values[id]["total"]]]
    /\ UNCHANGED <<rfp_rows, proposals, cache, next_id, pc, req, response>>

NextTotals == ApplyTotals

SpecTotals == InitTotals /\ [][NextTotals]_vars

\* the amount, in cents, written in a cell of TotalPool
C5_Amount(cell) ==
    CASE cell = C_1234_56 -> 123456
      [] cell = C_500 -> 50000
      [] cell = C_9_PAD -> 900
      [] OTHER -> 0

RECURSIVE C5_Sum(_)
C5_Sum(totals) ==
    IF totals = <<>> THEN 0
    ELSE C5_Amount(Head(totals)) + C5_Sum(Tail(totals))

\* C5: a vendor's grand total is the sum over the template rows of the
\* vendor's total-column values, read tolerant of "$", thousands separators
\* and whitespace, with TBD, N/A, -, $- and empty values skipped:
\* "$1,234.56", "TBD", "$500.00" total 1734.56.
C5_GrandTotalSkipsSentinels ==
    pure.result = "done" =>
        /\ pure.cents = C5_Sum(pure.totals)
        /\ pure.totals = <<C_1234_56, S_TBD, C_500>> =>
               /\ pure.cents = 173456
               /\ pure.cell = <<"$","1",",","7","3","4",".","5","6">>
        /\ pure.totals = <<C_9_PAD>> => pure.cell = <<"$","9",".","0","0">>

\* C5 witness: the totals "$1,234.56", "TBD", "$500.00" have been summed to
\* "$1,734.56".
C5_Witness ==
    /\ pure.result = "done"
    /\ pure.totals = <<C_1234_56, S_TBD, C_500>>
    /\ pure.cell = <<"$","1",",","7","3","4",".","5","6">>

-----------------------------------------------------------------------------
(* Two runs of classify_with_ai_fallback on the same input
   (column_classifier.py 101-180) *)

NewRun == [status |-> "new", fixed |-> <<>>, vendor |-> <<>>,
           ambiguous |-> <<>>, pending |-> <<>>, log |-> <<>>]

\* the stored proposals of an RFP: ids in upload order, newest first
Proposals(forms) ==
    [i \in 1..Len(forms) |->
        [id |-> Len(forms) + 1 - i, proposal_form_data |-> forms[i]]]

InitClassify ==
    /\ Idle
    /\ \E n \in 1..MaxRfpRows, k \in 1..MaxProposals :
       \E forms \in [1..k -> FormDataPool \cup {<<>>}] :
           pure = [fn |-> "classify", rows |-> Template(n),
                   props |-> Proposals(forms), runs |-> <<NewRun, NewRun>>]

\* lines 157-159: the vote; the loop of line 162 is entered if a column is
\* ambiguous
StartRun(i) ==
    /\ pure.runs[i].status = "new"
    /\ LET m == classify_columns_majority_voting(pure.rows, pure.props,
                                                 ThresholdNum, ThresholdDen)
       IN  pure' = [pure EXCEPT !.runs[i] =
                [status |-> IF m.ambiguous = <<>> THEN "done" ELSE "ai",
                 fixed |-> m.fixed, vendor |-> m.vendor,
                 ambiguous |-> m.ambiguous, pending |-> m.ambiguous,
                 log |-> <<>>]]
    /\ UNCHANGED <<rfp_rows, proposals, cache, next_id, pc, req, response>>

ai_step_without_else(run, outcome, classification) ==
    LET col == Head(run.pending)
    IN  [run EXCEPT
            !.fixed = IF classification = "fixed" THEN Append(@, col) ELSE @,
            !.vendor = Append(@, col),
            !.pending = Tail(@),
            !.log = Append(@, [column |-> col, outcome |-> outcome]),
            !.status = IF Tail(run.pending) = <<>> THEN "done" ELSE "ai"]

\* lines 173-178 for the first pending column, ai_semantic_classify having
\* returned classification
ai_step(run, outcome, classification) ==
    LET col == Head(run.pending)
    IN  [run EXCEPT
            !.fixed = IF classification = "fixed" THEN Append(@, col) ELSE @,
            !.vendor = IF classification = "fixed" THEN @ ELSE Append(@, col),
            !.pending = Tail(@),
            !.log = Append(@, [column |-> col, outcome |-> outcome]),
            !.status = IF Tail(run.pending) = <<>> THEN "done" ELSE "ai"]

\* lines 137-140: the oracle answers
OracleAnswers(i) ==
    /\ pure.runs[i].status = "ai"
    /\ \E says_fixed \in BOOLEAN :
           pure' = [pure EXCEPT !.runs[i] =
                       ai_step(@, "answered",
                               IF says_fixed THEN "fixed" ELSE "vendor")]
    /\ UNCHANGED <<rfp_rows, proposals, cache, next_id, pc, req, response>>

\* lines 141-144: llm.ainvoke raises
OracleFails(i) ==
    /\ pure.runs[i].status = "ai"
    /\ pure' = [pure EXCEPT !.runs[i] = ai_step(@, "failed", "vendor")]
    /\ UNCHANGED <<rfp_rows, proposals, cache, next_id, pc, req, response>>

\* line 113: get_chat_llm raises AIClientError before the try of line 137;
\* the exception leaves ai_semantic_classify and classify_with_ai_fallback
OracleUnavailable(i) ==
    /\ pure.runs[i].status = "ai"
    /\ pure' = [pure EXCEPT
            !.runs[i].status = "raised",
            !.runs[i].log = Append(@, [column |-> Head(pure.runs[i].pending),
                                       outcome |-> "unavailable"])]
    /\ UNCHANGED <<rfp_rows, proposals, cache, next_id, pc, req, response>>

NextClassify ==
    \E i \in 1..2 :
        \/ StartRun(i)
        \/ OracleAnswers(i)
        \/ OracleFails(i)
        \/ OracleUnavailable(i)

SpecClassify == InitClassify /\ [][NextClassify]_vars

\* C11 as stated: two classification runs on the same template rows, vendor
\* rows and threshold end with the same fixed and vendor columns.
C11_SameInputSamePartition ==
    (pure.runs[1].status = "done" /\ pure.runs[2].status = "done") =>
        /\ pure.runs[1].fixed = pure.runs[2].fixed
        /\ pure.runs[1].vendor = pure.runs[2].vendor

\* C12 as stated: every ambiguous column is put to the oracle, and a column
\* whose oracle call fails is classified VENDOR while the classification of
\* the remaining columns goes on.
C12_FailedOracleCallIsVendor ==
    \A i \in 1..2 :
        LET run == pure.runs[i]
        IN  /\ run.status = "done" =>
                   [k \in 1..Len(run.log) |-> run.log[k].column] = run.ambiguous
            /\ \A k \in 1..Len(run.log) :
                   run.log[k].outcome \in {"failed", "unavailable"} =>
                       /\ InSeq(run.log[k].column, run.vendor)
                       /\ run.status \in {"ai", "done"}

-----------------------------------------------------------------------------
(* comparison_matrix_builder.py: _elect_structure_from_proposals, 179-258,
   and _get_value_insensitive, 165-177.  A FilledFormRow is a record of
   section, item_id, description and values; values is the dictionary as the
   sequence of its <<key, value>> items, in insertion order. *)

\* the order of str: by code point, for the characters of this model's labels
CharOrder == <<" ">> \o Digits \o UpperLetters \o <<"_">> \o LowerLetters

CharCode(c) == CHOOSE i \in 1..Len(CharOrder) : CharOrder[i] = c

RECURSIVE StrLess(_, _)
StrLess(a, b) ==
    IF b = <<>> THEN FALSE
    ELSE IF a = <<>> THEN TRUE
    ELSE IF Head(a) = Head(b) THEN StrLess(Tail(a), Tail(b))
    ELSE CharCode(Head(a)) < CharCode(Head(b))

\* sorted(list(set(...))) of strings
RECURSIVE sorted_strs(_)
sorted_strs(S) ==
    IF S = {} THEN <<>>
    ELSE LET m == CHOOSE x \in S : \A y \in S \ {x} : StrLess(x, y)
         IN  <<m>> \o sorted_strs(S \ {m})

\* Counter([len(p.filled_rows) for p in vendor_proposals])[count]
count_freq(vendor_proposals, count) ==
    Cardinality({i \in 1..Len(vendor_proposals) :
                    Len(vendor_proposals[i].filled_rows) = count})

winner_count_smallest(vendor_proposals) ==
    LET counts == {Len(vendor_proposals[i].filled_rows) :
                      i \in 1..Len(vendor_proposals)}
        max_freq == CHOOSE f \in {count_freq(vendor_proposals, c) : c \in counts} :
                        \A c \in counts : count_freq(vendor_proposals, c) <= f
        candidates == {c \in counts : count_freq(vendor_proposals, c) = max_freq}
    IN  CHOOSE c \in candidates : \A d \in candidates : c <= d

\* lines 195-202: max(candidates)
winner_count(vendor_proposals) ==
    LET counts == {Len(vendor_proposals[i].filled_rows) :
                      i \in 1..Len(vendor_proposals)}
        max_freq == CHOOSE f \in {count_freq(vendor_proposals, c) : c \in counts} :
                        \A c \in counts : count_freq(vendor_proposals, c) <= f
        candidates == {c \in counts : count_freq(vendor_proposals, c) = max_freq}
    IN  CHOOSE c \in candidates : \A d \in candidates : d <= c

winner_of_last(vendor_proposals) ==
    vendor_proposals[CHOOSE i \in 1..Len(vendor_proposals) :
        /\ Len(vendor_proposals[i].filled_rows) = winner_count(vendor_proposals)
        /\ \A j \in (i + 1)..Len(vendor_proposals) :
               Len(vendor_proposals[j].filled_rows)
                   # winner_count(vendor_proposals)]

\* line 207: the first proposal of the winning count
winner_of(vendor_proposals) ==
    vendor_proposals[CHOOSE i \in 1..Len(vendor_proposals) :
        /\ Len(vendor_proposals[i].filled_rows) = winner_count(vendor_proposals)
        /\ \A j \in 1..(i - 1) :
               Len(vendor_proposals[j].filled_rows)
                   # winner_count(vendor_proposals)]

\* lines 241-249: the winner's rows as DiscoveredFormRow
new_rows_of(winner) ==
    [k \in 1..Len(winner.filled_rows) |->
        [section |-> winner.filled_rows[k].section,
         item_id |-> winner.filled_rows[k].item_id,
         description |-> winner.filled_rows[k].description,
         values |-> winner.filled_rows[k].values]]

NoStructure == [none |-> TRUE]

\* The returned ProposalFormStructure.  The rows=new_rows argument of line 257
\* is not a field of ProposalFormStructure (form_structure_analyzer.py 57-63)
\* and is not kept.
_elect_structure_from_proposals(vendor_proposals) ==
    IF vendor_proposals = <<>> THEN NoStructure
    ELSE
    LET winner == winner_of(vendor_proposals)
        rows == winner.filled_rows
        sample == rows[1]
        fixed_cols ==
            IF rows = <<>> THEN <<>>
            ELSE (IF Truthy(sample.item_id)
                     \/ Truthy(_get_value_insensitive(sample.values, S_ITEM))
                  THEN <<S_ITEM>> ELSE <<>>)
                 \o (IF Truthy(sample.description)
                        \/ Truthy(_get_value_insensitive(sample.values,
                                                         S_DESCRIPTION))
                     THEN <<S_DESCRIPTION>> ELSE <<>>)
        vendor_cols ==
            IF rows = <<>> THEN <<>>
            ELSE [i \in 1..Len(sample.values) |-> sample.values[i][1]]
        new_rows == new_rows_of(winner)
    IN  [form_title |-> <<"Consensus Structure (from ", winner.vendor_name,
                          ")">>,
         tables |-> <<>>,
         fixed_columns |-> IF fixed_cols = <<>> THEN <<S_ITEM>> ELSE fixed_cols,
         vendor_columns |->
             IF vendor_cols = <<>>
             THEN <<S_QUANTITY, S_UNIT, S_UNIT_COST, S_TOTAL>>
             ELSE vendor_cols,
         sections |-> sorted_strs({new_rows[k].section :
                         k \in {j \in 1..Len(new_rows) :
                                   Truthy(new_rows[j].section)}})]

-----------------------------------------------------------------------------
(* The election applied to lists of vendor proposals *)

MaxVendors == 3

S_ITEM_LC == <<"i","t","e","m">>
C_II == <<"I","I">>

\* row k of a filled form written in one of these ways:
\*   full            section, item_id, description and two values
\*   bare            neither section, item_id, description nor values
\*   late_values     as full, the first row without values
\*   no_item         as full, without item_id
\*   item_in_values  without item_id, the item number under the key "item"
FilledRow(k, style) ==
    [section |-> IF style = "bare" THEN <<>>
                 ELSE IF k = 1 THEN C_II ELSE C_I,
     item_id |-> IF style \in {"bare", "no_item", "item_in_values"} THEN <<>>
                 ELSE NatDigits(k),
     description |-> IF style = "bare" THEN <<>>
                     ELSE IF k % 2 = 1 THEN C_WALL ELSE C_ROOF,
     values |-> IF style = "bare" \/ (style = "late_values" /\ k = 1)
                THEN <<>>
                ELSE IF style = "item_in_values"
                THEN << <<S_ITEM_LC, NatDigits(k)>>, <<S_TOTAL, C_9>> >>
                ELSE << <<S_UNIT_COST, C_4_10>>, <<S_TOTAL, C_9>> >>]

\* the filled forms of the vendors: row count and way of writing
ElectPool ==
    {<<20, "full">>, <<25, "full">>, <<1, "full">>, <<2, "full">>,
     <<0, "full">>, <<2, "late_values">>, <<2, "bare">>, <<1, "no_item">>,
     <<1, "item_in_values">>}

VendorProposalData(i, form) ==
    [vendor_name |-> <<"V", Digits[i + 1]>>,
     filled_rows |-> [k \in 1..form[1] |-> FilledRow(k, form[2])]]

InitElect ==
    /\ Idle
    /\ \E n \in 1..MaxVendors : \E forms \in [1..n -> ElectPool] :
           pure = [fn |-> "elect",
                   vendor_proposals |->
                       [i \in 1..n |-> VendorProposalData(i, forms[i])],
                   result |-> "none", structure |-> NoStructure,
                   winner |-> <<>>, new_rows |-> <<>>]

\* _elect_structure_from_proposals(vendor_proposals): the winner of line 207,
\* the rows of lines 241-249 and the structure returned
ApplyElect ==
    /\ pure.result = "none"
    /\ pure' = [pure EXCEPT
            !.result = "elected",
            !.winner = winner_of(pure.vendor_proposals).vendor_name,
            !.new_rows = new_rows_of(winner_of(pure.vendor_proposals)),
            !.structure =
                _elect_structure_from_proposals(pure.vendor_proposals)]
    /\ UNCHANGED <<rfp_rows, proposals, cache, next_id, pc, req, response>>

NextElect == ApplyElect

SpecElect == InitElect /\ [][NextElect]_vars

RowCount(i) == Len(pure.vendor_proposals[i].filled_rows)

Vendors == 1..Len(pure.vendor_proposals)

\* the number of vendors that filled in count rows
Frequency(count) == Cardinality({i \in Vendors : RowCount(i) = count})

\* C13: the winning count has the highest frequency among the vendors' row
\* counts and is the largest of the counts of that frequency; the elected
\* rows are the rows, in order, of a vendor of exactly that count.
C13_MostFrequentThenLargestCount ==
    pure.result = "elected" =>
        LET won == Len(pure.new_rows)
        IN  /\ \A i \in Vendors : Frequency(RowCount(i)) <= Frequency(won)
            /\ \A i \in Vendors :
                   Frequency(RowCount(i)) = Frequency(won) => RowCount(i) <= won
            /\ \E i \in Vendors :
                   /\ pure.vendor_proposals[i].vendor_name = pure.winner
                   /\ RowCount(i) = won
                   /\ \A k \in 1..won :
                          pure.new_rows[k]
                              = pure.vendor_proposals[i].filled_rows[k]

\* C13 witness: row counts 1 and 2 are equally frequent, a count of 20 is
\* not among them, and the two-row vendor is elected.
C13_Witness ==
    /\ pure.result = "elected"
    /\ Len(pure.vendor_proposals) = 2
    /\ RowCount(1) = 1 /\ RowCount(2) = 2
    /\ pure.winner = pure.vendor_proposals[2].vendor_name
    /\ Len(pure.new_rows) = 2

IsABC == Len(pure.vendor_proposals) = 3
         /\ RowCount(1) = 20 /\ RowCount(2) = 20 /\ RowCount(3) = 25

\* C14 as stated: with row counts A=20, B=20, C=25 vendor C is elected and
\* its 25 rows are the elected rows.
C14_LargestCountWinsOverMajority ==
    (pure.result = "elected" /\ IsABC) =>
        /\ pure.winner = pure.vendor_proposals[3].vendor_name
        /\ Len(pure.new_rows) = 25

\* C14 amended: with row counts A=20, B=20, C=25 the count 20 is the most
\* frequent and vendor A, the first vendor of 20 rows, is elected; the 25 rows
\* of C are elected when only A and C are there.
C14_MajorityCountWins ==
    pure.result = "elected" =>
        /\ IsABC => /\ pure.winner = pure.vendor_proposals[1].vendor_name
                    /\ pure.new_rows = pure.vendor_proposals[1].filled_rows
        /\ (Len(pure.vendor_proposals) = 2
              /\ RowCount(1) = 20 /\ RowCount(2) = 25)
               => /\ pure.winner = pure.vendor_proposals[2].vendor_name
                  /\ Len(pure.new_rows) = 25

\* C14 witness: the election among A=20, B=20, C=25 has been run.
C14_Witness ==
    pure.result = "elected" /\ IsABC /\ Len(pure.new_rows) = 20

\* the vendor whose rows were elected
ElectedRows == pure.new_rows

DefaultVendorColumns == <<S_QUANTITY, S_UNIT, S_UNIT_COST, S_TOTAL>>

KeysOf(values) == [i \in 1..Len(values) |-> values[i][1]]

SectionLabels == {ElectedRows[k].section : k \in 1..Len(ElectedRows)} \ {<<>>}

\* C15 as stated: fixed_columns follows the presence of item_id and
\* description in the winner's first row, vendor_columns is the key list of
\* that row's values, or the default when the winner's rows have no values at
\* all, and sections is the set of the non-empty section labels.
C15_ColumnsOfFirstRowOrDefault ==
    pure.result = "elected" =>
        /\ SeqToSet(pure.structure.fixed_columns) \subseteq
               {S_ITEM, S_DESCRIPTION}
        /\ ElectedRows # <<>> =>
               /\ ElectedRows[1].item_id # <<>> =>
                      InSeq(S_ITEM, pure.structure.fixed_columns)
               /\ ElectedRows[1].description # <<>> =>
                      InSeq(S_DESCRIPTION, pure.structure.fixed_columns)
        /\ pure.structure.vendor_columns =
               IF \A k \in 1..Len(ElectedRows) : ElectedRows[k].values = <<>>
               THEN DefaultVendorColumns
               ELSE KeysOf(ElectedRows[1].values)
        /\ SeqToSet(pure.structure.sections) = SectionLabels

\* does the first elected row carry a non-empty value under name, as a field
\* or under a key of values that is name in any letter case
FirstRowHas(field, name) ==
    /\ ElectedRows # <<>>
    /\ \/ ElectedRows[1][field] # <<>>
       \/ \E i \in 1..Len(ElectedRows[1].values) :
              /\ Lower(ElectedRows[1].values[i][1]) = Lower(name)
              /\ ElectedRows[1].values[i][2] # <<>>

\* C15 amended: fixed_columns is Item if the winner's first row has an
\* item_id or an "Item" value, then Description if it has a description or a
\* "Description" value, and Item alone if it has neither or the winner has no
\* rows; vendor_columns is the key list of the first row's values, or the
\* default when the first row has no values or the winner has no rows;
\* sections lists each non-empty section label of the elected rows once.
C15_ColumnsOfFirstRow ==
    pure.result = "elected" =>
        /\ pure.structure.fixed_columns =
               IF FirstRowHas("item_id", S_ITEM)
               THEN IF FirstRowHas("description", S_DESCRIPTION)
                    THEN <<S_ITEM, S_DESCRIPTION>> ELSE <<S_ITEM>>
               ELSE IF FirstRowHas("description", S_DESCRIPTION)
                    THEN <<S_DESCRIPTION>> ELSE <<S_ITEM>>
        /\ pure.structure.vendor_columns =
               IF ElectedRows = <<>> \/ ElectedRows[1].values = <<>>
               THEN DefaultVendorColumns
               ELSE KeysOf(ElectedRows[1].values)
        /\ SeqToSet(pure.structure.sections) = SectionLabels
        /\ Len(pure.structure.sections) = Cardinality(SectionLabels)

\* C15 witness: the elected winner's first row has no values while its second
\* row has, and the default vendor columns were elected.
C15_Witness ==
    /\ pure.result = "elected"
    /\ Len(ElectedRows) = 2
    /\ ElectedRows[1].values = <<>> /\ ElectedRows[2].values # <<>>
    /\ pure.structure.vendor_columns = DefaultVendorColumns
    /\ pure.structure.sections = <<C_I, C_II>>

-----------------------------------------------------------------------------
(* The election inside the matrix request (routers/proposals.py 395-450) *)

\* lines 417-421: every stored key but item_id, description and section, with
\* str(v), or "" for None
values_dict_of(row) ==
    LET keys == SelectSeq(RowKeys, LAMBDA k :
                    k \in DOMAIN row
                    /\ k \notin {"item_id", "description", "section"})
    IN  [i \in 1..Len(keys) |->
            <<ColumnChars[keys[i]],
              IF row[keys[i]] # None THEN Str(row[keys[i]]) ELSE <<>> >>]

\* lines 401-435: one VendorProposalData per proposal that has form data
vendor_proposals_of(props) ==
    LET ps == with_data(props)
    IN  [i \in 1..Len(ps) |->
            [vendor_name |-> <<"V", Digits[ps[i].id + 1]>>,
             filled_rows |->
                 [k \in 1..Len(ps[i].proposal_form_data) |->
                     [section |-> Get(ps[i].proposal_form_data[k], "section"),
                      item_id |-> Get(ps[i].proposal_form_data[k], "item_id"),
                      description |->
                          Get(ps[i].proposal_form_data[k], "description"),
                      values |->
                          values_dict_of(ps[i].proposal_form_data[k])]]]]

\* the rows of the response that stand for a template row
TemplateRowsOf(resp) ==
    {i \in 1..Len(resp.rows) : ~IsGrandTotalRow(resp.rows[i])}

\* C16: an answered matrix request has one row per row of the elected winner
\* if the RFP has no template rows and some proposal has form data, one row
\* per template row (no election) if the RFP has template rows, and no rows
\* at all if there are neither template rows nor vendor data.
C16_ElectedRowsUsedIffNoTemplate ==
    Answered =>
        IF rfp_rows # <<>>
        THEN /\ response.status = "ok"
             /\ Cardinality(TemplateRowsOf(response)) = Len(rfp_rows)
        ELSE IF vendor_proposals_of(req.props) = <<>>
        THEN response.status = "empty" /\ response.rows = <<>>
        ELSE /\ response.status = "ok"
             /\ Cardinality(TemplateRowsOf(response)) =
                    Len(new_rows_of(winner_of(vendor_proposals_of(req.props))))

\* C19: a matrix request on an existing RFP never ends by raising to the
\* caller; whenever it has ended, the caller holds a response with rows or
\* the empty response.
C19_MatrixRequestNeverRaises ==
    /\ pc # "raised"
    /\ response.status # "raised"

-----------------------------------------------------------------------------
(* _find_best_match_row applied to a template row and candidate rows *)

MaxCandidates == 2

C_ROOF_UC == <<"R","O","O","F">>
C_ROOM_1 == <<"R","o","o","m"," ","1">>
C_ROOF_DECK == <<"R","o","o","f"," ","d","e","c","k">>
C_DOOR == <<"D","o","o","r">>
S_DESCRIPTION_LC == <<"d","e","s","c","r","i","p","t","i","o","n">>

\* a FilledFormRow
Candidate(item_id, description, values) ==
    [section |-> C_I, item_id |-> item_id, description |-> description,
     values |-> values]

\* against "Roof": 1, 1, 3/5, 8/13, 1/2, 0, no description, and a description
\* that only the values carry
CandidatePool ==
    {Candidate(<<"7">>, C_ROOF_UC, <<>>),
     Candidate(<<"9">>, C_ROOF, <<>>),
     Candidate(<<"7">>, C_ROOM_1, <<>>),
     Candidate(<<"7">>, C_ROOF_DECK, <<>>),
     Candidate(<<"7">>, C_DOOR, <<>>),
     Candidate(<<"7">>, C_WALL, <<>>),
     Candidate(<<"7">>, <<>>, <<>>),
     Candidate(<<"8">>, <<>>, << <<S_DESCRIPTION_LC, C_ROOF_DECK>> >>)}

\* template rows: of the RFP form, without a description, and of an elected
\* structure, whose rows keep the vendor's values
TargetPool ==
    {TemplateRow(2),
     [TemplateRow(2) EXCEPT !.description = None],
     [TemplateRow(2) EXCEPT !.description = <<>>, !.values = <<>>],
     [TemplateRow(2) EXCEPT !.description = <<>>,
                            !.values = << <<S_DESCRIPTION, C_ROOF>> >>]}

InitFuzzy ==
    /\ Idle
    /\ \E rfp_row \in TargetPool :
       \E n \in 0..MaxCandidates : \E cs \in [1..n -> CandidatePool] :
           pure = [fn |-> "fuzzy", rfp_row |-> rfp_row, candidate_rows |-> cs,
                   result |-> "none", best_row |-> NoRow]

ApplyFuzzy ==
    /\ pure.result = "none"
    /\ pure' = [pure EXCEPT
            !.result = "matched",
            !.best_row = _find_best_match_row(pure.rfp_row,
                                              pure.candidate_rows)]
    /\ UNCHANGED <<rfp_rows, proposals, cache, next_id, pc, req, response>>

NextFuzzy == ApplyFuzzy

SpecFuzzy == InitFuzzy /\ [][NextFuzzy]_vars

\* the description field of a row, "" when it is None
DescriptionField(row) == Or(Get(row, "description"), <<>>)

\* the similarity of two descriptions, letter case ignored
Similarity(a, b) == ratio(Lower(a), Lower(b))

StrictlyAbove(score) == score[1] * FuzzyDen > FuzzyNum * score[2]

Higher(s, t) == s[1] * t[2] > t[1] * s[2]

\* best_row is a candidate of the highest similarity under the given reading
\* of a row's description, if that similarity is strictly above 0.6 and the
\* template row has a description; otherwise there is no match
BestAbove(reading) ==
    LET Description(row) == IF reading = "field" THEN DescriptionField(row)
                            ELSE desc_of(row)
        target == Description(pure.rfp_row)
        cands == {i \in 1..Len(pure.candidate_rows) :
                     Description(pure.candidate_rows[i]) # <<>>}
        sc(i) == Similarity(target, Description(pure.candidate_rows[i]))
    IN  IF target = <<>> \/ \A i \in cands : ~StrictlyAbove(sc(i))
        THEN pure.best_row = NoRow
        ELSE \E i \in cands :
                /\ pure.best_row = pure.candidate_rows[i]
                /\ StrictlyAbove(sc(i))
                /\ \A j \in cands : ~Higher(sc(j), sc(i))

\* C17 as stated: the fuzzy match is the candidate whose description is most
\* similar to the template row's description if that similarity is strictly
\* greater than 0.6, and a template or candidate row whose description is
\* empty is never matched.
C17_StrictlyAboveOnDescriptionField ==
    pure.result = "matched" => BestAbove("field")

\* C17 amended: the same with the description a row is matched on being its
\* description field or, if that is empty, the value its values map holds
\* under "Description" in any letter case; only a row with neither is never
\* matched.
C17_StrictlyAboveOnDescriptionOrValue ==
    pure.result = "matched" => BestAbove("field or value")

\* C17 witness: of two candidates the first scores exactly 0.6 against the
\* template row and the second 8/13; the second is the match.
C17_Witness ==
    /\ pure.result = "matched"
    /\ Len(pure.candidate_rows) = 2
    /\ pure.rfp_row.description = C_ROOF
    /\ pure.candidate_rows[1].description = C_ROOM_1
    /\ Similarity(C_ROOF, C_ROOM_1)[1] * FuzzyDen
           = FuzzyNum * Similarity(C_ROOF, C_ROOM_1)[2]
    /\ Similarity(C_ROOF, C_ROOF_DECK) = <<8, 13>>
    /\ pure.best_row = pure.candidate_rows[2]
    /\ pure.best_row.description = C_ROOF_DECK

-----------------------------------------------------------------------------
(* The oracle-backed agents (form_structure_analyzer.py,                   *)
(* vendor_data_extractor.py) and the form steps of the two uploads         *)
(* (routers/rfps.py upload_rfp, routers/proposals.py upload_proposal)      *)

\* an exception leaves the function, or it returns a value
Raised == [raised |-> TRUE]

Returned(value) == [returned |-> value]

\* chain.invoke raises (time-out, rate limit, output that fails validation),
\* or the oracle answers
OracleFailure == [failure |-> TRUE]

Answer(value) == [answer |-> value]

\* rfp.proposal_form_schema: None, or {} as upload_rfp line 88 leaves it
NoSchema == [schema |-> "None"]

EmptySchema == [schema |-> "{}"]

\* structures the oracle may answer: a bid form, and no form at all
FormStructure ==
    [form_title |-> <<"B","i","d">>, tables |-> <<C_I>>,
     fixed_columns |-> <<S_ITEM, S_DESCRIPTION>>,
     vendor_columns |-> <<S_QUANTITY, S_UNIT, S_UNIT_COST, S_TOTAL>>,
     sections |-> <<C_I>>]

SentinelStructure ==
    [form_title |-> <<>>, tables |-> <<>>, fixed_columns |-> <<>>,
     vendor_columns |-> <<>>, sections |-> <<>>]

DiscoveryAnswers ==
    {Answer(FormStructure), Answer(SentinelStructure), OracleFailure}

RowAnswers ==
    {OracleFailure}
        \cup {Answer(rows) : rows \in {<<>>} \cup FormDataPool
                  \cup {Template(n) : n \in 1..MaxRfpRows}}

\* discover_form_structure, lines 244-252: the answer, or the exception again
discover_form_structure(d) ==
    IF d = OracleFailure THEN Raised ELSE Returned(d.answer)

\* extract_form_rows, lines 303-312: the rows, or [] after an exception
extract_form_rows(r) ==
    IF r = OracleFailure THEN Returned(<<>>) ELSE Returned(r.answer)

\* analyze_rfp, lines 324-333
analyze_rfp(d, r) ==
    IF discover_form_structure(d) = Raised THEN Raised
    ELSE Returned([structure |-> discover_form_structure(d).returned,
                   rows |-> extract_form_rows(r).returned])

\* upload_rfp, lines 87-110: the form part of the 201 response
upload_rfp(d, r) ==
    IF analyze_rfp(d, r) = Raised
    THEN Returned([status |-> 201, proposal_form_schema |-> EmptySchema,
                   proposal_form_rows |-> <<>>])
    ELSE Returned([status |-> 201,
                   proposal_form_schema |->
                       analyze_rfp(d, r).returned.structure,
                   proposal_form_rows |-> analyze_rfp(d, r).returned.rows])

\* A cell of a vendor's filled form: written out, written as "TBD", left
\* blank, or unreadable in the PDF text
Cell(column, kind, text) == [column |-> column, kind |-> kind, text |-> text]

C_CID == <<"(","c","i","d",":","3",")">>
S_NOTES == <<"N","o","t","e","s">>

DocRow(item_id, description, cells) ==
    [section |-> C_I, item_id |-> item_id, description |-> description,
     cells |-> cells]

DocPool ==
    {<<DocRow(<<"1">>, C_WALL,
              <<Cell(S_QUANTITY, "TBD", S_TBD), Cell(S_UNIT, "written", C_SF),
                Cell(S_UNIT_COST, "written", C_4_10),
                Cell(S_TOTAL, "unreadable", <<>>)>>)>>,
     <<DocRow(<<"1">>, C_WALL,
              <<Cell(S_QUANTITY, "written", <<"9">>),
                Cell(S_UNIT, "written", C_SF),
                Cell(S_UNIT_COST, "written", C_4_10),
                Cell(S_TOTAL, "written", C_500)>>),
       DocRow(<<"2">>, C_ROOF,
              <<Cell(S_QUANTITY, "blank", <<>>), Cell(S_UNIT, "written", C_LF),
                Cell(S_UNIT_COST, "TBD", S_TBD),
                Cell(S_TOTAL, "written", C_9)>>)>>}

\* The value the prompt of extract_vendor_data asks for (lines 194-196): the
\* amount as written, and "" if the value is "TBD", blank or missing; what an
\* unreadable cell becomes is left to the oracle
value_as_prompted(cell, garbled) ==
    IF cell.kind = "written" THEN cell.text
    ELSE IF cell.kind = "unreadable" /\ garbled THEN C_CID
    ELSE <<>>

\* A DynamicVendorData answer for a document: the ColumnValue list of each
\* row has the requested columns, or lacks the last of them, or has one more
ReadingOf(doc, requested, variant, garbled) ==
    [k \in 1..Len(doc) |->
        LET asked == SelectSeq(doc[k].cells,
                               LAMBDA c : InSeq(c.column, requested))
            cvs == [i \in 1..Len(asked) |->
                       [column |-> asked[i].column,
                        value |-> value_as_prompted(asked[i], garbled)]]
        IN  [section |-> doc[k].section, item_id |-> doc[k].item_id,
             description |-> doc[k].description,
             values |->
                 IF variant = "omits" /\ cvs # <<>>
                 THEN SubSeq(cvs, 1, Len(cvs) - 1)
                 ELSE IF variant = "adds"
                 THEN Append(cvs, [column |-> S_NOTES, value |-> C_I])
                 ELSE cvs]]

VendorAnswers(doc, requested) ==
    {OracleFailure}
        \cup {Answer(ReadingOf(doc, requested, variant, garbled)) :
                 variant \in {"as asked", "omits", "adds"},
                 garbled \in BOOLEAN}

\* line 223: {cv.column: cv.value for cv in row.values}
values_dict_from(cvs) ==
    LET first == SelectSeq([i \in 1..Len(cvs) |-> i],
                     LAMBDA i : \A j \in 1..(i - 1) :
                                    cvs[j].column # cvs[i].column)
        last(c) == CHOOSE i \in 1..Len(cvs) :
                       /\ cvs[i].column = c
                       /\ \A j \in (i + 1)..Len(cvs) : cvs[j].column # c
    IN  [k \in 1..Len(first) |->
            <<cvs[first[k]].column, cvs[last(cvs[first[k]].column)].value>>]

\* VendorDataExtractor.extract_vendor_data, lines 208-244
extract_vendor_data(r) ==
    IF r = OracleFailure THEN Raised
    ELSE Returned(
          [vendor_name |-> <<"V">>,
           filled_rows |->
              [k \in 1..Len(r.answer) |->
                  [section |-> r.answer[k].section,
                   item_id |-> r.answer[k].item_id,
                   description |-> r.answer[k].description,
                   values |-> values_dict_from(r.answer[k].values)]]])

\* upload_proposal, lines 109-195: vendor_form_data
vendor_form_data_of(rfp_schema, has_context, d, r) ==
    IF ~has_context THEN Returned(<<>>)
    ELSE IF rfp_schema \notin {NoSchema, EmptySchema}
            /\ rfp_schema.fixed_columns # <<>>
    THEN extract_form_rows(r)
    ELSE IF discover_form_structure(d) = Raised THEN Returned(<<>>)
    ELSE extract_form_rows(r)

NoCall ==
    [name |-> "none", d |-> OracleFailure, r |-> OracleFailure,
     result |-> Raised]

InitAgents ==
    /\ Idle
    /\ \E schema \in {NoSchema, EmptySchema, FormStructure, SentinelStructure},
          has_context \in BOOLEAN :
           pure = [fn |-> "agents", rfp_schema |-> schema,
                   has_context |-> has_context, call |-> NoCall]

CallOf(name, d, r, result) ==
    [name |-> name, d |-> d, r |-> r, result |-> result]

DiscoverFormStructure ==
    /\ pure.call = NoCall
    /\ \E d \in DiscoveryAnswers :
           pure' = [pure EXCEPT !.call =
               CallOf("discover_form_structure", d, OracleFailure,
                      discover_form_structure(d))]
    /\ UNCHANGED <<rfp_rows, proposals, cache, next_id, pc, req, response>>

ExtractFormRows ==
    /\ pure.call = NoCall
    /\ \E r \in RowAnswers :
           pure' = [pure EXCEPT !.call =
               CallOf("extract_form_rows", OracleFailure, r,
                      extract_form_rows(r))]
    /\ UNCHANGED <<rfp_rows, proposals, cache, next_id, pc, req, response>>

AnalyzeRfp ==
    /\ pure.call = NoCall
    /\ \E d \in DiscoveryAnswers, r \in RowAnswers :
           pure' = [pure EXCEPT !.call =
               CallOf("analyze_rfp", d, r, analyze_rfp(d, r))]
    /\ UNCHANGED <<rfp_rows, proposals, cache, next_id, pc, req, response>>

UploadRfp ==
    /\ pure.call = NoCall
    /\ \E d \in DiscoveryAnswers, r \in RowAnswers :
           pure' = [pure EXCEPT !.call =
               CallOf("upload_rfp", d, r, upload_rfp(d, r))]
    /\ UNCHANGED <<rfp_rows, proposals, cache, next_id, pc, req, response>>

\* extract_vendor_data(proposal_context, rfp_structure, ...) on a document
ExtractVendorData ==
    /\ pure.call = NoCall
    /\ pure.rfp_schema \in {FormStructure, SentinelStructure}
    /\ \E doc \in DocPool :
       \E r \in VendorAnswers(doc, pure.rfp_schema.vendor_columns) :
           pure' = [pure EXCEPT !.call =
               [name |-> "extract_vendor_data", d |-> OracleFailure, r |-> r,
                result |-> extract_vendor_data(r), doc |-> doc]]
    /\ UNCHANGED <<rfp_rows, proposals, cache, next_id, pc, req, response>>

UploadProposalForm ==
    /\ pure.call = NoCall
    /\ \E d \in DiscoveryAnswers, r \in RowAnswers :
           pure' = [pure EXCEPT !.call =
               CallOf("upload_proposal", d, r,
                      vendor_form_data_of(pure.rfp_schema,
                                          pure.has_context, d, r))]
    /\ UNCHANGED <<rfp_rows, proposals, cache, next_id, pc, req, response>>

NextAgents ==
    \/ DiscoverFormStructure
    \/ ExtractFormRows
    \/ AnalyzeRfp
    \/ UploadRfp
    \/ ExtractVendorData
    \/ UploadProposalForm

SpecAgents == InitAgents /\ [][NextAgents]_vars

\* C18: when the oracle call of a vendor's form extraction fails, the
\* extractor returns an empty row set instead of raising, and the form step
\* of the proposal upload ends with no rows for that vendor.
C18_FailedExtractionIsEmptyRowSet ==
    pure.call.r = OracleFailure =>
        /\ pure.call.name = "extract_vendor_data" =>
               /\ pure.call.result # Raised
               /\ pure.call.result.returned.filled_rows = <<>>
        /\ pure.call.name = "extract_form_rows" =>
               pure.call.result = Returned(<<>>)
        /\ pure.call.name = "upload_proposal" =>
               pure.call.result = Returned(<<>>)

\* C20: when the oracle call of schema discovery fails, discovery returns the
\* empty structure (no tables, no fixed and no vendor columns) instead of
\* raising, the analysis of the RFP has that structure, and the RFP upload
\* answers 201 with an empty schema and no template rows.
C20_FailedDiscoveryIsEmptyStructure ==
    pure.call.d = OracleFailure =>
        /\ pure.call.name = "discover_form_structure" =>
               pure.call.result = Returned(SentinelStructure)
        /\ pure.call.name = "analyze_rfp" =>
               /\ pure.call.result # Raised
               /\ pure.call.result.returned.structure = SentinelStructure
        /\ pure.call.name = "upload_rfp" =>
               /\ pure.call.result.returned.status = 201
               /\ pure.call.result.returned.proposal_form_schema
                      \in {EmptySchema, SentinelStructure}
               /\ pure.call.result.returned.proposal_form_rows = <<>>

-----------------------------------------------------------------------------
(* The winner among vendors of the winning count *)

\* C29: the elected vendor is the first vendor of the list, in input order,
\* whose row count is the winning count, and the elected rows are its rows.
C29_FirstVendorOfWinningCountIsElected ==
    pure.result = "elected" =>
        \E i \in Vendors :
            /\ RowCount(i) = Len(pure.new_rows)
            /\ \A j \in 1..(i - 1) : RowCount(j) # RowCount(i)
            /\ pure.winner = pure.vendor_proposals[i].vendor_name
            /\ pure.new_rows = pure.vendor_proposals[i].filled_rows

\* C29 witness: two vendors of two rows each, filled in differently, share
\* the winning count, and the rows of the first of them are elected.
C29_Witness ==
    /\ pure.result = "elected"
    /\ Len(pure.vendor_proposals) = 3
    /\ RowCount(1) = 1 /\ RowCount(2) = 2 /\ RowCount(3) = 2
    /\ pure.vendor_proposals[2].filled_rows
           # pure.vendor_proposals[3].filled_rows
    /\ pure.winner = pure.vendor_proposals[2].vendor_name
    /\ pure.new_rows = pure.vendor_proposals[2].filled_rows

-----------------------------------------------------------------------------
(* utils/ai_client.py: _complete_with_groq, lines 202-252 *)

\* defaults of lines 36-38, in seconds and attempts
GROQ_REQUEST_DELAY == 2
GROQ_MAX_RETRIES == 3
GROQ_RETRY_DELAY == 5

\* the seconds since the last Groq request, when the call starts
MaxElapsed == 3

\* lines 221-226: model_mapping.get(model, GROQ_MODEL)
groq_model_of(model) ==
    IF model = "gpt-4o" THEN "llama-3.3-70b-versatile"
    ELSE IF model = "gpt-4o-mini" THEN "llama-3.1-8b-instant"
    ELSE "GROQ_MODEL"

\* _rate_limit_groq, lines 49-61: the wait before a request
wait_time(time_since_last) ==
    IF time_since_last < GROQ_REQUEST_DELAY
    THEN GROQ_REQUEST_DELAY - time_since_last
    ELSE 0

\* an except clause that retries on every error
retries_on_any_error(outcome) == outcome # "ok"

\* lines 242-249: only GroqRateLimitError stays in the loop
retries_on(outcome) == outcome = "rate_limit"

InitGroq ==
    /\ Idle
    /\ \E has_key \in BOOLEAN,
          model \in {"None", "gpt-4o", "gpt-4o-mini", "gpt-4"},
          elapsed \in 0..MaxElapsed :
           pure = [fn |-> "groq", has_key |-> has_key, model |-> model,
                   groq_model |-> "", time_since_last |-> elapsed,
                   at |-> "called", attempt |-> 0, log |-> <<>>,
                   slept |-> 0, result |-> "none"]

GroqStep(next) ==
    /\ pure' = next
    /\ UNCHANGED <<rfp_rows, proposals, cache, next_id, pc, req, response>>

\* lines 211-226: the key check and the model mapping
CallGroq ==
    /\ pure.at = "called"
    /\ GroqStep(IF ~pure.has_key
                THEN [pure EXCEPT !.at = "raised", !.result = "AIClientError"]
                ELSE [pure EXCEPT
                         !.groq_model = groq_model_of(pure.model),
                         !.at = IF 0 < GROQ_MAX_RETRIES THEN "attempt"
                                ELSE "exhausted"])

\* one pass of the loop body, lines 228-249, with the outcome of the request
attempt_with(outcome) ==
    LET made == [pure EXCEPT
                    !.log = Append(pure.log, outcome),
                    !.slept = pure.slept + wait_time(pure.time_since_last),
                    !.time_since_last = 0]
    IN  IF outcome = "ok"
        THEN [made EXCEPT !.at = "returned", !.result = "content"]
        ELSE IF retries_on(outcome)
        THEN [made EXCEPT
                 !.slept = made.slept + GROQ_RETRY_DELAY * 2^pure.attempt,
                 !.time_since_last = GROQ_RETRY_DELAY * 2^pure.attempt,
                 !.attempt = pure.attempt + 1,
                 !.at = IF pure.attempt + 1 < GROQ_MAX_RETRIES
                        THEN "attempt" ELSE "exhausted"]
        ELSE [made EXCEPT !.at = "raised", !.result = outcome]

RequestSucceeds ==
    /\ pure.at = "attempt"
    /\ GroqStep(attempt_with("ok"))

RequestRateLimited ==
    /\ pure.at = "attempt"
    /\ GroqStep(attempt_with("rate_limit"))

RequestFails ==
    /\ pure.at = "attempt"
    /\ GroqStep(attempt_with("error"))

\* line 252
RetriesExhausted ==
    /\ pure.at = "exhausted"
    /\ GroqStep([pure EXCEPT !.at = "raised", !.result = "AIClientError"])

NextGroq ==
    \/ CallGroq
    \/ RequestSucceeds
    \/ RequestRateLimited
    \/ RequestFails
    \/ RetriesExhausted

\* every step of the call is a step of one thread that nothing blocks:
\* time.sleep and the request return
SpecGroq == InitGroq /\ [][NextGroq]_vars /\ WF_vars(NextGroq)

GroqDone == pure.at \in {"returned", "raised"}

AllButLastRateLimited ==
    \A k \in 1..(Len(pure.log) - 1) : pure.log[k] = "rate_limit"

GroqAttemptsBounded ==
    /\ Len(pure.log) <= GROQ_MAX_RETRIES
    /\ AllButLastRateLimited
    /\ pure.result = "content" =>
           pure.log # <<>> /\ pure.log[Len(pure.log)] = "ok"
    /\ pure.result = "error" =>
           pure.log # <<>> /\ pure.log[Len(pure.log)] = "error"
    /\ (pure.result = "AIClientError" /\ pure.has_key) =>
           /\ Len(pure.log) = GROQ_MAX_RETRIES
           /\ \A k \in 1..Len(pure.log) : pure.log[k] = "rate_limit"
    /\ (GroqDone /\ pure.has_key) =>
           \/ pure.result = "content"
           \/ pure.result = "error"
           \/ pure.result = "AIClientError"
    /\ (~GroqDone /\ pure.log # <<>>) =>
           pure.log[Len(pure.log)] = "rate_limit"

\* C30: _complete_with_groq makes at most GROQ_MAX_RETRIES requests, each but
\* the first after a rate-limit error; it returns on the first success,
\* re-raises any other error at once, raises AIClientError after
\* GROQ_MAX_RETRIES rate-limit errors in a row, and always ends.
C30_GroqTerminatesWithinMaxRetries ==
    /\ []GroqAttemptsBounded
    /\ <>GroqDone

\* C30 witness: three requests in a row hit the rate limit and the call has
\* raised AIClientError, after sleeping 5 + 10 + 20 seconds.
C30_Witness ==
    /\ pure.at = "raised"
    /\ pure.result = "AIClientError"
    /\ pure.log = <<"rate_limit", "rate_limit", "rate_limit">>
    /\ pure.slept >= 35

-----------------------------------------------------------------------------
(* Retrieval collections of concurrent uploads (agents/ingestion.py         *)
(* ingest_document, routers/rfps.py upload_rfp, routers/proposals.py        *)
(* upload_proposal, vendor_data_extractor.py ingest_proposal)               *)

MaxUploads == 2

\* vendor_data_extractor.py 94: re.sub(r'[^a-zA-Z0-9._-]', '_', name)[:50]
safe_name(vendor_name) ==
    LET sub == [i \in 1..Len(vendor_name) |->
                   IF InSeq(vendor_name[i], LowerLetters)
                      \/ InSeq(vendor_name[i], UpperLetters)
                      \/ InSeq(vendor_name[i], Digits)
                      \/ vendor_name[i] \in {".", "_", "-"}
                   THEN vendor_name[i] ELSE "_"]
    IN  SubSeq(sub, 1, IF Len(sub) < 50 THEN Len(sub) ELSE 50)

\* names of different vendors
VendorNameChars ==
    << <<"A","&","B">>, <<"A"," ","B">>, <<"B","o","l","t">>,
       <<"C","r","a","n","e">> >>

\* the collection an upload ingests into and reads from: rfps.py 85 and 93,
\* proposals.py 124 and 176, vendor_data_extractor.py 95; id is the proposal
\* id or the index of the vendor's name
collection_name_of(kind, id) ==
    IF kind = "upload_rfp" THEN <<"RFP_Upload_Context">>
    ELSE IF kind = "upload_proposal" THEN <<"Vendor_Proposal_", Digits[id + 1]>>
    ELSE <<"Proposal_">> \o safe_name(VendorNameChars[id])

\* upload i of n runs at once, each with its own document i and, for the
\* vendor uploads, its own proposal id or vendor name; a collection may still
\* hold the chunks of an earlier document 0
InitIngest ==
    /\ Idle
    /\ \E kind \in {"upload_rfp", "upload_proposal", "extract_from_pdf"},
          n \in 2..MaxUploads, stale \in BOOLEAN :
       \E ids \in [1..n -> 1..Len(VendorNameChars)] :
           /\ \A i, j \in 1..n : i # j => ids[i] # ids[j]
           /\ kind = "upload_rfp" => \A i \in 1..n : ids[i] = i
           /\ pure = [fn |-> "ingest", kind |-> kind, ids |-> ids,
                      at |-> [i \in 1..n |-> "start"],
                      context |-> [i \in 1..n |-> {}],
                      collections |->
                          [c \in {collection_name_of(kind, ids[i]) :
                                     i \in 1..n} |->
                              IF stale THEN {0} ELSE {}]]

CollectionOf(i) == collection_name_of(pure.kind, pure.ids[i])

IngestStep(i, at, collections, context) ==
    /\ pure' = [pure EXCEPT !.at[i] = at, !.collections = collections,
                            !.context[i] = context]
    /\ UNCHANGED <<rfp_rows, proposals, cache, next_id, pc, req, response>>

\* ingest_document lines 49-61 with reset=True, or delete_collection of
\* ingest_proposal lines 104-112: the chunks now stored are removed
ResetCollection ==
    \E i \in DOMAIN pure.at :
        /\ pure.at[i] = "start"
        /\ IngestStep(i, "reset",
                      [pure.collections EXCEPT ![CollectionOf(i)] = {}],
                      pure.context[i])

\* ingest_document lines 66-67: db.add_documents(chunks)
AddDocuments ==
    \E i \in DOMAIN pure.at :
        /\ pure.at[i] = "reset"
        /\ IngestStep(i, "added",
                      [pure.collections EXCEPT
                          ![CollectionOf(i)] = @ \cup {i}],
                      pure.context[i])

\* get_proposal_form_context / get_proposal_context: the chunks retrieved
GetContext ==
    \E i \in DOMAIN pure.at :
        /\ pure.at[i] = "added"
        /\ IngestStep(i, "read", pure.collections,
                      pure.collections[CollectionOf(i)])

NextIngest ==
    \/ ResetCollection
    \/ AddDocuments
    \/ GetContext

SpecIngest == InitIngest /\ [][NextIngest]_vars

Uploads == DOMAIN pure.at

\* C23: the extraction of a vendor's document reads the chunks of that
\* document only, whatever the other vendors' extractions do meanwhile.
C23_VendorExtractionsAreIsolated ==
    pure.kind \in {"upload_proposal", "extract_from_pdf"} =>
        \A i \in Uploads : pure.at[i] = "read" => pure.context[i] = {i}

\* C28: the form of an RFP upload is derived from the chunks of the document
\* of that request only, whatever other RFP uploads do meanwhile.
C28_RfpUploadReadsOwnChunksOnly ==
    pure.kind = "upload_rfp" =>
        \A i \in Uploads : pure.at[i] = "read" => pure.context[i] = {i}

-----------------------------------------------------------------------------
(* The rows returned by the vendor extractor *)

ExtractorReturned ==
    /\ pure.fn = "agents"
    /\ pure.call.name = "extract_vendor_data"
    /\ pure.call.result # Raised

ReturnedRows == pure.call.result.returned.filled_rows

KeySet(values) == {values[i][1] : i \in 1..Len(values)}

\* C21: every filled row the vendor extractor returns has a values map whose
\* keys are exactly the vendor columns of the RFP's structure.
C21_ValuesCoverExactlyVendorColumns ==
    ExtractorReturned =>
        \A k \in 1..Len(ReturnedRows) :
            KeySet(ReturnedRows[k].values)
                = SeqToSet(pure.rfp_schema.vendor_columns)

\* the value recorded for the cell of a document row, if one is recorded
RecordedFor(k, cell) ==
    {ReturnedRows[k].values[i][2] :
        i \in {j \in 1..Len(ReturnedRows[k].values) :
                  ReturnedRows[k].values[j][1] = cell.column}}

\* C22: a cell the vendor wrote as "TBD" is recorded as "TBD" and an
\* unreadable cell as the empty string, whenever the extractor records them.
C22_TbdAndUnreadableAreToldApart ==
    ExtractorReturned =>
        \A k \in 1..Len(ReturnedRows) :
            \A i \in 1..Len(pure.call.doc[k].cells) :
                LET cell == pure.call.doc[k].cells[i]
                IN  /\ cell.kind = "TBD" => RecordedFor(k, cell) \subseteq {S_TBD}
                    /\ cell.kind = "unreadable" =>
                           RecordedFor(k, cell) \subseteq {<<>>}

-----------------------------------------------------------------------------
(* ComparisonMatrixBuilder.build_comparison_dataframe,
   comparison_matrix_builder.py lines 45-163 *)

\* An instance of ProposalFormStructure with one fixed column
SingleFixedStructure ==
    [form_title |-> <<"B","i","d">>, tables |-> <<C_I>>,
     fixed_columns |-> <<S_ITEM>>,
     vendor_columns |-> <<S_UNIT_COST, S_TOTAL>>,
     sections |-> <<C_I>>]

RaisedError(error) == [error |-> error]

\* rfp_structure.rows: ProposalFormStructure (form_structure_analyzer.py
\* lines 57-63) declares form_title, tables, fixed_columns, vendor_columns
\* and sections, and the rows=new_rows of line 257 is not kept by the model
rows_attribute(rfp_structure) ==
    IF "rows" \in DOMAIN rfp_structure
    THEN Returned(rfp_structure.rows)
    ELSE RaisedError("AttributeError")

\* Lines 55-77. Every path ends before the row loop of line 77 is entered:
\* line 55 reads rfp_structure.rows of a given structure, line 59 raises
\* when nothing can be elected, and line 77 reads the rows of the elected
\* structure
build_comparison_dataframe(rfp_structure, vendor_proposals) ==
    IF rfp_structure # NoStructure
       /\ rows_attribute(rfp_structure) = RaisedError("AttributeError")
    THEN RaisedError("AttributeError")
    ELSE
    LET structure ==
            IF rfp_structure = NoStructure
            THEN _elect_structure_from_proposals(vendor_proposals)
            ELSE rfp_structure
    IN  IF structure = NoStructure THEN RaisedError("ValueError")
        ELSE rows_attribute(structure)

InitBuild ==
    /\ Idle
    /\ \E rfp_structure \in
              {NoStructure, FormStructure, SingleFixedStructure} :
       \E n \in 0..MaxVendors : \E forms \in [1..n -> ElectPool] :
           pure = [fn |-> "build", rfp_structure |-> rfp_structure,
                   vendor_proposals |->
                       [i \in 1..n |-> VendorProposalData(i, forms[i])],
                   called |-> FALSE, result |-> RaisedError("none")]

BuildComparisonDataframe ==
    /\ ~pure.called
    /\ pure' = [pure EXCEPT
            !.called = TRUE,
            !.result = build_comparison_dataframe(pure.rfp_structure,
                                                  pure.vendor_proposals)]
    /\ UNCHANGED <<rfp_rows, proposals, cache, next_id, pc, req, response>>

NextBuild == BuildComparisonDataframe

SpecBuild == InitBuild /\ [][NextBuild]_vars

\* "<vendor_name> <column>", lines 89 and 126
col_key(vendor_name, v_col) == vendor_name \o <<" ">> \o v_col

\* C24: a call of build_comparison_dataframe with the RFP's structure
\* returns a frame, and each data row of it has a cell
\* "<vendor_name> <column>" for every vendor and every vendor column, also
\* when there are no vendors or the structure has one fixed column.
C24_EveryRowHasEveryVendorCell ==
    (pure.fn = "build" /\ pure.called /\ pure.rfp_structure # NoStructure)
    => /\ "returned" \in DOMAIN pure.result
       /\ \A k \in 1..Len(pure.result.returned) :
          \A i \in 1..Len(pure.vendor_proposals) :
          \A c \in 1..Len(pure.rfp_structure.vendor_columns) :
              \E cell \in 1..Len(pure.result.returned[k]) :
                  pure.result.returned[k][cell][1]
                      = col_key(pure.vendor_proposals[i].vendor_name,
                                pure.rfp_structure.vendor_columns[c])

-----------------------------------------------------------------------------
(* Vendor values of the columns no vendor agrees with the template on *)

FreshMatrix ==
    /\ Answered
    /\ response.status = "ok"
    /\ ~response.reused

\* the raw value of column c in the row of proposal p matched to RFP row i,
\* if the row exists and the value is not empty after normalization
VendorValue(i, p, c) ==
    LET vendor_row == get_vendor_row(req.props[p].proposal_form_data,
                                     Get(req.rows[i], "item_id"))
    IN  IF vendor_row # NoRow /\ normalize_value(Get(vendor_row, c)) # <<>>
        THEN Get(vendor_row, c)
        ELSE None

\* the vendor's value is in the matrix: c is a vendor column and the cell of
\* row i for the proposal is the value
ShownAsVendorValue(i, p, c) ==
    /\ InSeq(c, response.vendor_columns)
    /\ response.rows[i].vendor_values[req.props[p].id][c] = VendorValue(i, p, c)

\* C25: if a vendor's item_id-matched row has a non-empty value in a column
\* in which no vendor value equals the template's value, the template's
\* value being empty or not, the column is a vendor column and the value is
\* in vendor_values.
C25_UnmatchedVendorValueIsShown ==
    FreshMatrix =>
        \A c \in SeqToSet(all_columns(req.rows)) :
            match_count(c, req.rows, with_data(req.props)) = 0 =>
                \A i \in 1..Len(req.rows) : \A p \in 1..Len(req.props) :
                    VendorValue(i, p, c) # None => ShownAsVendorValue(i, p, c)

\* C25 as the code has it: the same for a column with at least one valid
\* comparison; a column without any (the template's values all empty, or
\* only beside empty vendor values) is fixed and none of its vendor values
\* is in vendor_values.
C25_UnmatchedComparedVendorValueIsShown ==
    FreshMatrix =>
        \A c \in SeqToSet(all_columns(req.rows)) :
            match_count(c, req.rows, with_data(req.props)) = 0 =>
                IF total_comparisons(c, req.rows, with_data(req.props)) > 0
                THEN \A i \in 1..Len(req.rows) : \A p \in 1..Len(req.props) :
                        VendorValue(i, p, c) # None
                            => ShownAsVendorValue(i, p, c)
                ELSE ~InSeq(c, response.vendor_columns)

\* C25 witness: one matrix with a compared column without a match whose
\* vendor value is shown, and a column never compared whose vendor value is
\* not.
C25_Witness ==
    /\ FreshMatrix
    /\ \E c, d \in SeqToSet(all_columns(req.rows)) :
       \E i \in 1..Len(req.rows) : \E p \in 1..Len(req.props) :
           /\ match_count(c, req.rows, with_data(req.props)) = 0
           /\ total_comparisons(c, req.rows, with_data(req.props)) > 0
           /\ VendorValue(i, p, c) # None
           /\ ShownAsVendorValue(i, p, c)
           /\ total_comparisons(d, req.rows, with_data(req.props)) = 0
           /\ VendorValue(i, p, d) # None
           /\ ~InSeq(d, response.vendor_columns)

-----------------------------------------------------------------------------
(* The grand-total row against the total cells the matrix shows *)

\* the amount, in cents, a shown cell stands for; nothing if parse_number
\* gives None for it
ShownAmount(cell) ==
    IF parse_number(cell) = NoNumber THEN 0 ELSE parse_number(cell)[1]

RECURSIVE ShownSum(_)
ShownSum(cells) ==
    IF cells = <<>> THEN 0
    ELSE ShownAmount(Head(cells)) + ShownSum(Tail(cells))

\* C26: for every vendor the value in the grand-total row is the sum of the
\* parsable values shown in the vendor's total cells of the other rows; a
\* cell shown as "-" or "Not Quoted" adds nothing.
C26_GrandTotalIsSumOfShownTotals ==
    pure.result = "done" =>
        /\ ShownAmount(S_DASH) = 0 /\ ShownAmount(S_NOT_QUOTED_CELL) = 0
        /\ \A id \in 1..2 :
               pure.grand[id] = FormatMoney(ShownSum(pure.shown[id]))

\* C26 witness: vendor 1 shows "$1,234.56", "-" and "$500.00", vendor 2
\* "$1,234.56", "-" and "Not Quoted"; the totals are "$1,734.56" and
\* "$1,234.56".
C26_Witness ==
    /\ pure.result = "done"
    /\ pure.shown = <<(<<C_1234_56, S_DASH, C_500>>),
                      (<<C_1234_56, S_DASH, S_NOT_QUOTED_CELL>>)>>
    /\ pure.grand = <<(<<"$","1",",","7","3","4",".","5","6">>),
                      (<<"$","1",",","2","3","4",".","5","6">>)>>

-----------------------------------------------------------------------------
(* Every candidate column is classified once *)

\* the keys of the first template row without 'values'
CandidateColumns == DOMAIN pure.rows[1] \ {"values"}

\* the lists have no column twice, none in common, and CandidateColumns as
\* their union
ClassifiedOnce(lists) ==
    LET all == lists[1] \o lists[2] \o lists[3]
    IN  /\ SeqToSet(all) = CandidateColumns
        /\ Len(all) = Cardinality(CandidateColumns)

\* C27: for at least one template row classify_columns_majority_voting
\* returns three pairwise disjoint lists whose union is the key set of the
\* first template row without 'values', and the two lists
\* classify_with_ai_fallback returns are disjoint with the same union.
C27_EveryColumnClassifiedOnce ==
    pure.fn = "classify" =>
        /\ LET m == classify_columns_majority_voting(pure.rows, pure.props,
                                                     ThresholdNum, ThresholdDen)
           IN  ClassifiedOnce(<<m.fixed, m.vendor, m.ambiguous>>)
        /\ \A i \in 1..2 :
               pure.runs[i].status = "done" =>
                   ClassifiedOnce(<<pure.runs[i].fixed, pure.runs[i].vendor,
                                    <<>>>>)

\* C27 witness: a run has returned after the oracle put one ambiguous
\* column to the fixed and another to the vendor columns.
C27_Witness ==
    /\ pure.fn = "classify"
    /\ \E i \in 1..2 :
           /\ pure.runs[i].status = "done"
           /\ \E c \in SeqToSet(pure.runs[i].ambiguous) :
                  InSeq(c, pure.runs[i].fixed)
           /\ \E c \in SeqToSet(pure.runs[i].ambiguous) :
                  InSeq(c, pure.runs[i].vendor)
           /\ pure.runs[i].vendor # <<>>

====
